---- MODULE Spec2Model ----
(***************************************************************************)
(* A model of the der.ts ASN.1 DER codec: the recursive-descent parser     *)
(* (parser.ts), the flat-vector node views and their iterator              *)
(* (collection.ts), the Serializer and the parse / sequence helpers        *)
(* (der.ts) and the value codecs (types/*.ts).                             *)
(*                                                                         *)
(* Bytes are the integers 0..255.  A Uint8Array is a sequence of bytes.    *)
(* The code indexes arrays from 0; the model keeps the code's 0-based      *)
(* indices and reads element i of a vector v as v[i + 1].                  *)
(* A thrown ASN1Error is the field err of the result record, NoError       *)
(* when the call returns.                                                  *)
(***************************************************************************)
EXTENDS Integers, Sequences, FiniteSets, TLC

VARIABLES
    pc,       \* which operation has run on the current scenario
    input,    \* the byte buffer handed to the parser
    rules,    \* EncodingRules: "Distinguished" or "Basic"
    base,     \* nodes parsed before the scenario starts (0 for a whole parse)
    level,    \* depth of the node whose child loop the scenario is in (0: none)
    result,   \* what ParseResult.parse returned or threw
    root,     \* what the public parse() returned or threw
    out,      \* the Serializer's buffer
    obj,      \* the value object that is serialized
    decoder,  \* the decoder or helper that is called on the parsed node
    decoded,  \* what the decoder or helper returned or threw
    iter,     \* the iterator handed to the builder of sequence, and its history
    args,     \* the component list handed to ASN1ObjectIdentifier.fromComponents
    comps,    \* what fromComponents threw, or what the components getter returned
    thrown    \* the error that the call on the Serializer threw, if it threw

vars == <<pc, input, rules, base, level, result, root, out, obj, decoder,
          decoded, iter, args, comps, thrown>>

(***************************************************************************)
(* errors.ts                                                               *)
(***************************************************************************)
NoError == "none"
InvalidASN1Object == "InvalidASN1Object"
TruncatedASN1Field == "TruncatedASN1Field"
UnsupportedFieldLength == "UnsupportedFieldLength"
UnexpectedFieldType == "UnexpectedFieldType"
InvalidASN1IntegerEncoding == "InvalidASN1IntegerEncoding"
TooFewOIDComponents == "TooFewOIDComponents"

(***************************************************************************)
(* Byte helpers: the bit operations of the code on 0..255.                 *)
(***************************************************************************)
Drop(s, n) == SubSeq(s, n + 1, Len(s))      \* Uint8Array.subarray(n)
Take(s, n) == SubSeq(s, 1, n)               \* Uint8Array.subarray(0, n)
Fill(n, b) == [i \in 1..n |-> b]            \* new Uint8Array(n).fill(b)

RECURSIVE Pow(_, _)
Pow(b, e) == IF e = 0 THEN 1 ELSE b * Pow(b, e - 1)

(***************************************************************************)
(* types/identifier.ts                                                     *)
(***************************************************************************)
Universal == 0
Application == 1
ContextSpecific == 2
Private == 3

ASN1Identifier(tagNumber, tagClass) ==
    [tagNumber |-> tagNumber, tagClass |-> tagClass]

\* topByte >> 6
fromTopByte(topByte) == topByte \div 64

\* (tagClass as number) << 6
topByteFlags(id) == id.tagClass * 64

\* Only called when (shortIdentifier & 0x1f) # 0x1f.
fromShortIdentifier(shortIdentifier) ==
    ASN1Identifier(shortIdentifier % 32, shortIdentifier \div 64)

\* number | null: -1 stands for null
shortForm(id) ==
    IF id.tagNumber < 31 THEN id.tagNumber + topByteFlags(id) ELSE -1

IdEquals(a, b) == a.tagNumber = b.tagNumber /\ a.tagClass = b.tagClass

ID_BOOLEAN == ASN1Identifier(1, Universal)
ID_INTEGER == ASN1Identifier(2, Universal)
ID_BIT_STRING == ASN1Identifier(3, Universal)
ID_OCTET_STRING == ASN1Identifier(4, Universal)
ID_NULL == ASN1Identifier(5, Universal)
ID_OBJECT_IDENTIFIER == ASN1Identifier(6, Universal)
ID_REAL == ASN1Identifier(9, Universal)
ID_UTF8_STRING == ASN1Identifier(12, Universal)
ID_SEQUENCE == ASN1Identifier(16, Universal)
ID_SET == ASN1Identifier(17, Universal)
ID_PRINTABLE_STRING == ASN1Identifier(19, Universal)
ID_IA5_STRING == ASN1Identifier(22, Universal)

(***************************************************************************)
(* parser.ts                                                               *)
(***************************************************************************)
Distinguished == "Distinguished"
Basic == "Basic"

MAXIMUM_NODE_DEPTH == 50
MAXIMUM_TOTAL_NODES == 100000

\* data is null for a constructed node: the empty sequence stands for it,
\* isConstructed tells the two apart.
ParserNode(identifier, depth, isConstructed, encodedBytes, dataBytes) ==
    [identifier |-> identifier, depth |-> depth, isConstructed |-> isConstructed,
     encodedBytes |-> encodedBytes, dataBytes |-> dataBytes]

isEndMarker(n) ==
    /\ n.identifier.tagClass = Universal
    /\ n.identifier.tagNumber = 0
    /\ ~n.isConstructed
    /\ Len(n.encodedBytes) = 2
    /\ n.encodedBytes[1] = 0
    /\ n.encodedBytes[2] = 0

\* value.toString(16).length
RECURSIVE HexDigits(_)
HexDigits(value) == IF value < 16 THEN 1 ELSE 1 + HexDigits(value \div 16)

\* minimalOctetLen without the padStart to an even number of hex digits
minimalOctetLenUnpadded(value) ==
    IF value = 0 THEN 1 ELSE HexDigits(value) \div 2

minimalOctetLen(value) ==
    IF value = 0 THEN 1
    ELSE LET s == HexDigits(value)
             padded == IF s % 2 # 0 THEN s + 1 ELSE s
         IN  padded \div 2

\* The loop of readASN1DisciplineUint: value and the rest of the data.
RECURSIVE DisciplineUintLoop(_, _, _)
DisciplineUintLoop(data, value, read) ==
    IF Len(data) = 0
    THEN [err |-> TruncatedASN1Field, value |-> 0, read |-> read, data |-> data]
    ELSE LET byte == data[1]
             v == value * 128 + (byte % 128)
         IN  IF byte < 128
             THEN [err |-> NoError, value |-> v, read |-> read + 1,
                   data |-> Drop(data, 1)]
             ELSE DisciplineUintLoop(Drop(data, 1), v, read + 1)

readASN1DisciplineUint(data) == DisciplineUintLoop(data, 0, 0)

\* length = length * 256n + BigInt(b) over lengthBytes
RECURSIVE UintBE(_, _)
UintBE(bytes, acc) ==
    IF Len(bytes) = 0 THEN acc
    ELSE UintBE(Drop(bytes, 1), acc * 256 + bytes[1])

Indefinite == "Indefinite"
Definite == "Definite"

\* readASN1Length after the first length octet has been taken off (lines
\* 182-219): d1 is the data after it.
LengthAfterFirstByte(firstByte, d1, minimalEncoding) ==
    IF firstByte = 128
    THEN [err |-> NoError, type |-> Indefinite, value |-> 0, data |-> d1]
    ELSE IF firstByte >= 128
    THEN LET fieldLength == firstByte % 128
         IN  IF Len(d1) < fieldLength
             THEN [err |-> TruncatedASN1Field, type |-> Definite,
                   value |-> 0, data |-> d1]
             ELSE LET length == UintBE(Take(d1, fieldLength), 0)
                      d2 == Drop(d1, fieldLength)
                  IN  IF minimalEncoding /\ length < 128
                      THEN [err |-> UnsupportedFieldLength, type |-> Definite,
                            value |-> length, data |-> d2]
                      ELSE IF minimalEncoding
                              /\ fieldLength > minimalOctetLen(length)
                      THEN [err |-> UnsupportedFieldLength, type |-> Definite,
                            value |-> length, data |-> d2]
                      ELSE [err |-> NoError, type |-> Definite,
                            value |-> length, data |-> d2]
    ELSE [err |-> NoError, type |-> Definite, value |-> firstByte, data |-> d1]

\* readASN1Length that reads a missing first length octet as length 0
readASN1LengthOrZero(data, minimalEncoding) ==
    IF Len(data) = 0
    THEN [err |-> NoError, type |-> Definite, value |-> 0, data |-> data]
    ELSE LengthAfterFirstByte(data[1], Drop(data, 1), minimalEncoding)

readASN1Length(data, minimalEncoding) ==
    IF Len(data) = 0
    THEN [err |-> TruncatedASN1Field, type |-> Definite, value |-> 0, data |-> data]
    ELSE LengthAfterFirstByte(data[1], Drop(data, 1), minimalEncoding)

\* The parser's mutable state: state.data, state.nodeCount and the nodes
\* vector, with the error thrown so far.
Ctx(data, nodeCount, nodes) ==
    [err |-> NoError, data |-> data, nodeCount |-> nodeCount, nodes |-> nodes]

Throw(ctx, code) == [ctx EXCEPT !.err = code]

\* The identifier octets of _parseNode (lines 77-99): the identifier and the
\* data after it.
ReadIdentifier(data) ==
    LET rawIdentifier == data[1]
        d1 == Drop(data, 1)
    IN  IF rawIdentifier % 32 = 31
        THEN LET r == readASN1DisciplineUint(d1)
             IN  IF r.err # NoError
                 THEN [err |-> r.err, identifier |-> ASN1Identifier(0, 0), data |-> r.data]
                 ELSE IF r.value < 31
                 THEN [err |-> InvalidASN1Object,
                       identifier |-> ASN1Identifier(r.value, fromTopByte(rawIdentifier)),
                       data |-> r.data]
                 ELSE [err |-> NoError,
                       identifier |-> ASN1Identifier(r.value, fromTopByte(rawIdentifier)),
                       data |-> r.data]
        ELSE [err |-> NoError, identifier |-> fromShortIdentifier(rawIdentifier),
              data |-> d1]

\* state.nodeCount > this.MAXIMUM_TOTAL_NODES
TooManyNodes(nodeCount) == nodeCount > MAXIMUM_TOTAL_NODES

\* the depth check off by one
TooDeepByOne(depth) == depth > MAXIMUM_NODE_DEPTH + 1

\* depth > this.MAXIMUM_NODE_DEPTH
TooDeep(depth) == depth > MAXIMUM_NODE_DEPTH

RECURSIVE parseNode(_, _, _)
RECURSIVE DefiniteLoop(_, _, _)
RECURSIVE IndefiniteLoop(_, _, _)

\* the child loop that parses the children at the depth of their parent
RECURSIVE DefiniteLoopAtDepth(_, _, _)
DefiniteLoopAtDepth(checkSub, rls, depth) ==
    IF checkSub.err # NoError \/ Len(checkSub.data) = 0 THEN checkSub
    ELSE DefiniteLoopAtDepth(parseNode(checkSub, rls, depth), rls, depth)

\* while (checkSub.data.length > 0) this._parseNode(checkSub, rules, depth + 1, nodes)
DefiniteLoop(checkSub, rls, depth) ==
    IF checkSub.err # NoError \/ Len(checkSub.data) = 0 THEN checkSub
    ELSE DefiniteLoop(parseNode(checkSub, rls, depth + 1), rls, depth)

\* while (true) { ... } of the indefinite branch
IndefiniteLoop(state, rls, depth) ==
    IF Len(state.data) = 0 THEN Throw(state, TruncatedASN1Field)
    ELSE LET s1 == parseNode(state, rls, depth + 1)
         IN  IF s1.err # NoError THEN s1
             ELSE IF Len(s1.nodes) = 0 THEN Throw(s1, InvalidASN1Object)
             ELSE IF isEndMarker(s1.nodes[Len(s1.nodes)])
             THEN [s1 EXCEPT !.nodes = Take(s1.nodes, Len(s1.nodes) - 1)]
             ELSE IndefiniteLoop(s1, rls, depth)

parseNode(state0, rls, depth) ==
    LET state == [state0 EXCEPT !.nodeCount = @ + 1]
    IN
    IF TooManyNodes(state.nodeCount) THEN Throw(state, InvalidASN1Object)
    ELSE IF TooDeep(depth) THEN Throw(state, InvalidASN1Object)
    ELSE IF Len(state.data) = 0 THEN Throw(state, TruncatedASN1Field)
    ELSE
    LET originalData == state.data
        constructed == (originalData[1] \div 32) % 2 = 1
        rid == ReadIdentifier(originalData)
    IN
    IF rid.err # NoError THEN Throw([state EXCEPT !.data = rid.data], rid.err)
    ELSE
    LET identifier == rid.identifier
        wideLength == readASN1Length(rid.data, rls = Distinguished)
    IN
    IF wideLength.err # NoError
    THEN Throw([state EXCEPT !.data = wideLength.data], wideLength.err)
    ELSE IF wideLength.type = Definite
    THEN
        LET length == wideLength.value
            afterLen == wideLength.data
        IN
        IF Len(afterLen) < length
        THEN Throw([state EXCEPT !.data = afterLen], TruncatedASN1Field)
        ELSE
        LET subData == Take(afterLen, length)
            rest == Drop(afterLen, length)
            consumed == Len(originalData) - Len(rest)
            encodedBytes == Take(originalData, consumed)
        IN
        IF constructed
        THEN LET pushed == Append(state.nodes,
                               ParserNode(identifier, depth, TRUE, encodedBytes, <<>>))
                 checkSub == DefiniteLoop(
                               Ctx(subData, state.nodeCount, pushed), rls, depth)
             IN  [err |-> checkSub.err, data |-> rest,
                  nodeCount |-> checkSub.nodeCount, nodes |-> checkSub.nodes]
        ELSE [state EXCEPT !.data = rest,
                           !.nodes = Append(@,
                               ParserNode(identifier, depth, FALSE, encodedBytes, subData))]
    ELSE
        IF rls = Distinguished
        THEN Throw([state EXCEPT !.data = wideLength.data], UnsupportedFieldLength)
        ELSE IF ~constructed
        THEN Throw([state EXCEPT !.data = wideLength.data], UnsupportedFieldLength)
        ELSE
        LET placeholderAt == Len(state.nodes) + 1
            s0 == [state EXCEPT !.data = wideLength.data,
                                !.nodes = Append(@,
                                    ParserNode(identifier, depth, TRUE, <<>>, <<>>))]
            s1 == IndefiniteLoop(s0, rls, depth)
        IN
        IF s1.err # NoError THEN s1
        ELSE LET consumed == Len(originalData) - Len(s1.data)
             IN  [s1 EXCEPT !.nodes[placeholderAt].encodedBytes =
                                Take(originalData, consumed)]

\* ParseResult.parse without the check for data left over
ParseResultOfFirstNode(state) ==
    IF state.err # NoError THEN [err |-> state.err, nodes |-> <<>>]
    ELSE [err |-> NoError, nodes |-> state.nodes]

\* The end of ParseResult.parse (lines 51-55): state is the parser state
\* after the top-level _parseNode.
ParseResultOf(state) ==
    IF state.err # NoError THEN [err |-> state.err, nodes |-> <<>>]
    ELSE IF Len(state.data) > 0 THEN [err |-> InvalidASN1Object, nodes |-> <<>>]
    ELSE [err |-> NoError, nodes |-> state.nodes]

\* ParseResult.parse(data, rules)
ParseResultParse(data, rls) ==
    ParseResultOf(parseNode(Ctx(data, 0, <<>>), rls, 1))

(***************************************************************************)
(* collection.ts: node views over the flat vector.  A collection and its   *)
(* iterator share the parser's vector; the operators take it as nodes.     *)
(***************************************************************************)
ASN1NodeCollection(start, end, depth) ==
    [start |-> start, end |-> end, depth |-> depth]

\* content.type is Constructed iff constructed; value is the byte content of
\* a primitive node, coll the collection of a constructed one.
ASN1Node(identifier, constructed, value, coll, encodedBytes) ==
    [identifier |-> identifier, constructed |-> constructed, value |-> value,
     coll |-> coll, encodedBytes |-> encodedBytes]

NoCollection == ASN1NodeCollection(0, 0, 0)

\* new ASN1NodeCollectionIterator(nodes, start, end, depth)
ASN1NodeCollectionIterator(coll) ==
    [start |-> coll.start, end |-> coll.end, depth |-> coll.depth,
     current |-> coll.start]

\* the search that stops only at a node above nodeDepth
RECURSIVE SubtreeSearchAbove(_, _, _, _)
SubtreeSearchAbove(nodes, end, nodeDepth, searchIndex) ==
    IF searchIndex >= end THEN end
    ELSE IF searchIndex < Len(nodes) /\ nodes[searchIndex + 1].depth < nodeDepth
    THEN searchIndex
    ELSE SubtreeSearchAbove(nodes, end, nodeDepth, searchIndex + 1)

\* for (searchIndex = index + 1; searchIndex < this.end; searchIndex++)
RECURSIVE SubtreeSearch(_, _, _, _)
SubtreeSearch(nodes, end, nodeDepth, searchIndex) ==
    IF searchIndex >= end THEN end
    ELSE IF searchIndex < Len(nodes) /\ nodes[searchIndex + 1].depth <= nodeDepth
    THEN searchIndex
    ELSE SubtreeSearch(nodes, end, nodeDepth, searchIndex + 1)

\* subtreeEndIndex that takes every node for a leaf
subtreeEndIndexOfLeaf(nodes, it, index) ==
    IF index + 1 < it.end THEN index + 1 ELSE it.end

subtreeEndIndex(nodes, it, index) ==
    IF index < 0 \/ index >= Len(nodes) THEN it.end
    ELSE SubtreeSearch(nodes, it.end, nodes[index + 1].depth, index + 1)

\* Only called with an index inside the vector.
cloneNode(nodes, index, endIndex) ==
    LET node == nodes[index + 1]
    IN  IF node.isConstructed
        THEN ASN1Node(node.identifier, TRUE, <<>>,
                      ASN1NodeCollection(index + 1, endIndex, node.depth),
                      node.encodedBytes)
        ELSE ASN1Node(node.identifier, FALSE, node.dataBytes, NoCollection,
                      node.encodedBytes)

NullNode == [null |-> TRUE]

\* peek(): the node view, or NullNode
IterPeek(nodes, it) ==
    IF it.current >= it.end THEN NullNode
    ELSE cloneNode(nodes, it.current, subtreeEndIndex(nodes, it, it.current))

\* peek() that moves the cursor as next() does
IterAfterPeekAdvanced(nodes, it) ==
    IF it.current >= it.end THEN it
    ELSE [it EXCEPT !.current = subtreeEndIndex(nodes, it, it.current)]

\* the iterator after peek(): the method assigns to no field
IterAfterPeek(nodes, it) == it

\* next(): {done, value} and the iterator after the call
IterNext(nodes, it) ==
    IF it.current >= it.end
    THEN [done |-> TRUE, value |-> NullNode, it |-> it]
    ELSE LET index == it.current
             endIndex == subtreeEndIndex(nodes, it, index)
         IN  [done |-> FALSE, value |-> cloneNode(nodes, index, endIndex),
              it |-> [it EXCEPT !.current = endIndex]]

(***************************************************************************)
(* der.ts: parse                                                           *)
(***************************************************************************)
\* for (i = 1; i < nodes.length; i++) if (node.depth <= rootDepth) break
RECURSIVE RootEndIndex(_, _, _)
RootEndIndex(nodes, rootDepth, i) ==
    IF i >= Len(nodes) THEN Len(nodes)
    ELSE IF nodes[i + 1].depth <= rootDepth THEN i
    ELSE RootEndIndex(nodes, rootDepth, i + 1)

\* The view of the root built from a flat vector (lines 25-61).
RootView(nodes) ==
    IF Len(nodes) = 0 THEN [err |-> InvalidASN1Object, node |-> NullNode]
    ELSE
    LET first == nodes[1]
        rootDepth == first.depth
        endIndex == RootEndIndex(nodes, rootDepth, 1)
    IN  IF endIndex # Len(nodes) THEN [err |-> InvalidASN1Object, node |-> NullNode]
        ELSE IF first.isConstructed
        THEN [err |-> NoError,
              node |-> ASN1Node(first.identifier, TRUE, <<>>,
                                ASN1NodeCollection(1, endIndex, rootDepth),
                                first.encodedBytes)]
        ELSE [err |-> NoError,
              node |-> ASN1Node(first.identifier, FALSE, first.dataBytes,
                                NoCollection, first.encodedBytes)]

\* parse(data): the vector is kept with the view, as the view's collection
\* refers to it.
DerParse(data) ==
    LET r == ParseResultParse(data, Distinguished)
    IN  IF r.err # NoError THEN [err |-> r.err, node |-> NullNode, nodes |-> <<>>]
        ELSE LET v == RootView(r.nodes)
             IN  [err |-> v.err, node |-> v.node,
                  nodes |-> IF v.err = NoError THEN r.nodes ELSE <<>>]

(***************************************************************************)
(* der.ts: Serializer                                                      *)
(***************************************************************************)
\* bytes.push(Number(tempN & 0x7fn)); tempN >>= 7n  -- then bytes.reverse()
RECURSIVE Base128Groups(_)
Base128Groups(n) ==
    IF n = 0 THEN <<>> ELSE Append(Base128Groups(n \div 128), n % 128)

\* the groups pushed without the continuation bit
GroupsWithoutContinuation(n) ==
    IF n = 0 THEN <<0>> ELSE Base128Groups(n)

\* The bytes pushed on v.
writeASN1DisciplineUint(n) ==
    IF n = 0 THEN <<0>>
    ELSE LET bytes == Base128Groups(n)
         IN  [i \in 1..Len(bytes) |->
                 IF i # Len(bytes) THEN bytes[i] + 128 ELSE bytes[i]]

encodeIdentifier(identifier, constructed) ==
    LET short == shortForm(identifier)
    IN  IF short # -1
        THEN <<IF constructed THEN short + 32 ELSE short>>
        ELSE LET topByte == 31 + (IF constructed THEN 32 ELSE 0)
                               + identifier.tagClass * 64
             IN  <<topByte>> \o writeASN1DisciplineUint(identifier.tagNumber)

\* bytes.push(l & 0xff); l >>= 8  -- then bytes.reverse().  For the lengths
\* below 2^31 that are modelled, the shift of the 32-bit value is the
\* division by 256.
RECURSIVE Base256Octets(_)
Base256Octets(l) ==
    IF l = 0 THEN <<>> ELSE Append(Base256Octets(l \div 256), l % 256)

\* the long form for every length
encodeLengthLongForm(len) ==
    LET bytes == IF len = 0 THEN <<0>> ELSE Base256Octets(len)
    IN  <<128 + Len(bytes)>> \o bytes

encodeLength(len) ==
    IF len <= 127 THEN <<len>>
    ELSE LET bytes == Base256Octets(len)
         IN  <<128 + Len(bytes)>> \o bytes

\* What appendNode pushes on the buffer: identifier, length, content.
EncodedNode(identifier, constructed, content) ==
    encodeIdentifier(identifier, constructed)
        \o encodeLength(Len(content)) \o content

\* appendNode: the buffer after the call
appendNode(buffer, identifier, constructed, content) ==
    buffer \o EncodedNode(identifier, constructed, content)

\* appendPrimitiveNode with a writer that pushes content
appendPrimitiveNode(buffer, identifier, content) ==
    appendNode(buffer, identifier, FALSE, content)

\* appendConstructedNode with a writer that leaves nested as the nested
\* Serializer's buffer
appendConstructedNode(buffer, identifier, nested) ==
    appendNode(buffer, identifier, TRUE, nested)

RECURSIVE writeNode(_, _, _)
RECURSIVE WriteChildren(_, _)

\* for (const child of collection) nested.writeNode(child): the nested
\* buffer after the loop, each writeNode appending to what the later ones
\* find.
WriteChildren(nodes, it) ==
    LET n == IterNext(nodes, it)
    IN  IF n.done THEN <<>>
        ELSE writeNode(<<>>, nodes, n.value) \o WriteChildren(nodes, n.it)

\* writeNode(node): the buffer after the call
writeNode(buffer, nodes, node) ==
    IF ~node.constructed
    THEN appendPrimitiveNode(buffer, node.identifier, node.value)
    ELSE appendConstructedNode(buffer, node.identifier,
             WriteChildren(nodes, ASN1NodeCollectionIterator(node.coll)))

(***************************************************************************)
(* The value types.  A decoder returns {err, value}: the error thrown, or  *)
(* the object built; NoValue stands for nothing being returned.            *)
(***************************************************************************)
NoValue == [type |-> "none"]

Thrown(code) == [err |-> code, value |-> NoValue]
Returned(v) == [err |-> NoError, value |-> v]

\* The two checks every fromDERNodeWithIdentifier starts with: the error
\* thrown, or NoError.
IdentifierAndShape(node, identifier) ==
    IF ~IdEquals(node.identifier, identifier) THEN UnexpectedFieldType
    ELSE IF node.constructed THEN UnexpectedFieldType
    ELSE NoError

Reverse(s) == [i \in 1..Len(s) |-> s[Len(s) + 1 - i]]

(***************************************************************************)
(* types/integer.ts                                                        *)
(***************************************************************************)
ASN1Integer(value) == [type |-> "ASN1Integer", int |-> value]

\* the bytes read as an unsigned number
fromUnsignedBytesBE(bytes) == UintBE(bytes, 0)

fromSignedBytesBE(bytes) ==
    LET value == UintBE(bytes, 0)
    IN  IF bytes[1] >= 128 THEN value - Pow(2, Len(bytes) * 8) ELSE value

\* while (temp > 0n) { bytes.push(Number(temp & 0xffn)); temp >>= 8n }
RECURSIVE LowBytesFirst(_)
LowBytesFirst(temp) ==
    IF temp = 0 THEN <<>> ELSE <<temp % 256>> \o LowBytesFirst(temp \div 256)

\* for (i = 0; i < n; i++) { bytes.push(Number(temp & 0xffn)); temp >>= 8n }
RECURSIVE LowBytesFirstN(_, _)
LowBytesFirstN(temp, n) ==
    IF n = 0 THEN <<>>
    ELSE <<temp % 256>> \o LowBytesFirstN(temp \div 256, n - 1)

RECURSIVE BinaryDigits(_)
BinaryDigits(n) == IF n < 2 THEN 1 ELSE 1 + BinaryDigits(n \div 2)

\* value.toString(2).length for value < 0: the minus sign, then the digits
ToString2Length(value) == 1 + BinaryDigits(-value)

\* toSignedBytesBE that keeps every byte of the rounded-up bit length
KeepLeadingFF(bytes) == bytes

\* while (bytes.length > 1) { ... bytes.pop() ... }: bytes is least
\* significant first
RECURSIVE TrimLeadingFF(_)
TrimLeadingFF(bytes) ==
    IF Len(bytes) > 1 /\ bytes[Len(bytes)] = 255 /\ bytes[Len(bytes) - 1] >= 128
    THEN TrimLeadingFF(Take(bytes, Len(bytes) - 1))
    ELSE bytes

toSignedBytesBE(value) ==
    IF value = 0 THEN <<0>>
    ELSE IF value > 0
    THEN LET bytes == LowBytesFirst(value)
         IN  Reverse(IF bytes[Len(bytes)] >= 128 THEN Append(bytes, 0) ELSE bytes)
    ELSE LET bits == ToString2Length(value)
             bitLength == ((bits + 1 + 7) \div 8) * 8
             unsigned == value + Pow(2, bitLength)
         IN  Reverse(TrimLeadingFF(LowBytesFirstN(unsigned, bitLength \div 8)))

Integer_fromDERNodeWithIdentifier(node, identifier) ==
    IF IdentifierAndShape(node, identifier) # NoError
    THEN Thrown(IdentifierAndShape(node, identifier))
    ELSE LET bytes == node.value
         IN  IF Len(bytes) = 0 THEN Thrown(InvalidASN1Object)
             ELSE IF Len(bytes) > 1 /\ bytes[1] = 0 /\ bytes[2] < 128
             THEN Thrown(InvalidASN1IntegerEncoding)
             ELSE IF Len(bytes) > 1 /\ bytes[1] = 255 /\ bytes[2] >= 128
             THEN Thrown(InvalidASN1IntegerEncoding)
             ELSE Returned(ASN1Integer(fromSignedBytesBE(bytes)))

\* a serializer that leaves the identifier aside
Integer_serializeUntagged(buffer, self, identifier) ==
    appendPrimitiveNode(buffer, ID_INTEGER, toSignedBytesBE(self.int))

Integer_serializeWithIdentifier(buffer, self, identifier) ==
    appendPrimitiveNode(buffer, identifier, toSignedBytesBE(self.int))

(***************************************************************************)
(* types/boolean.ts                                                        *)
(***************************************************************************)
ASN1Boolean(value) == [type |-> "ASN1Boolean", bool |-> value]

\* a decoder that takes every non-zero byte for true
Boolean_fromAnyByte(node, identifier) ==
    IF IdentifierAndShape(node, identifier) # NoError
    THEN Thrown(IdentifierAndShape(node, identifier))
    ELSE IF Len(node.value) # 1 THEN Thrown(InvalidASN1Object)
    ELSE Returned(ASN1Boolean(node.value[1] # 0))

Boolean_fromDERNodeWithIdentifier(node, identifier) ==
    IF IdentifierAndShape(node, identifier) # NoError
    THEN Thrown(IdentifierAndShape(node, identifier))
    ELSE LET bytes == node.value
         IN  IF Len(bytes) # 1 THEN Thrown(InvalidASN1Object)
             ELSE IF bytes[1] = 0 THEN Returned(ASN1Boolean(FALSE))
             ELSE IF bytes[1] = 255 THEN Returned(ASN1Boolean(TRUE))
             ELSE Thrown(InvalidASN1Object)

Boolean_serialize(buffer, self) ==
    appendPrimitiveNode(buffer, ID_BOOLEAN, <<IF self.bool THEN 255 ELSE 0>>)

(***************************************************************************)
(* types/null.ts                                                           *)
(***************************************************************************)
ASN1Null == [type |-> "ASN1Null"]

Null_fromDERNodeWithIdentifier(node, identifier) ==
    IF IdentifierAndShape(node, identifier) # NoError
    THEN Thrown(IdentifierAndShape(node, identifier))
    ELSE IF Len(node.value) # 0 THEN Thrown(InvalidASN1Object)
    ELSE Returned(ASN1Null)

(***************************************************************************)
(* types/octet_string.ts                                                   *)
(***************************************************************************)
ASN1OctetString(value) == [type |-> "ASN1OctetString", octets |-> value]

OctetString_fromDERNodeWithIdentifier(node, identifier) ==
    IF IdentifierAndShape(node, identifier) # NoError
    THEN Thrown(IdentifierAndShape(node, identifier))
    ELSE Returned(ASN1OctetString(node.value))

(***************************************************************************)
(* types/bit_string.ts                                                     *)
(***************************************************************************)
ASN1BitString(bytes, paddingBits) ==
    [type |-> "ASN1BitString", bits |-> bytes, paddingBits |-> paddingBits]

\* The constructor returns: neither of its two checks throws.
BitStringAccepted(bytes, paddingBits) ==
    /\ ~(paddingBits < 0 \/ paddingBits > 7)
    /\ ~(Len(bytes) = 0 /\ paddingBits # 0)

\* a decoder that leaves the unused bits unchecked
BitString_fromAnyBits(node, identifier) ==
    IF IdentifierAndShape(node, identifier) # NoError
    THEN Thrown(IdentifierAndShape(node, identifier))
    ELSE LET bytes == node.value
         IN  IF Len(bytes) = 0 THEN Thrown(InvalidASN1Object)
             ELSE IF bytes[1] > 7 THEN Thrown(InvalidASN1Object)
             ELSE IF Len(bytes) = 1 /\ bytes[1] # 0
             THEN Thrown(InvalidASN1Object)
             ELSE Returned(ASN1BitString(Drop(bytes, 1), bytes[1]))

BitString_fromDERNodeWithIdentifier(node, identifier) ==
    IF IdentifierAndShape(node, identifier) # NoError
    THEN Thrown(IdentifierAndShape(node, identifier))
    ELSE LET bytes == node.value
         IN  IF Len(bytes) = 0 THEN Thrown(InvalidASN1Object)
             ELSE LET paddingBits == bytes[1]
                      data == Drop(bytes, 1)
                  IN  IF paddingBits > 7 THEN Thrown(InvalidASN1Object)
                      ELSE IF Len(data) = 0 /\ paddingBits # 0
                      THEN Thrown(InvalidASN1Object)
                      ELSE IF Len(data) > 0
                              /\ data[Len(data)] % Pow(2, paddingBits) # 0
                      THEN Thrown(InvalidASN1Object)
                      ELSE Returned(ASN1BitString(data, paddingBits))

BitString_serialize(buffer, self) ==
    appendPrimitiveNode(buffer, ID_BIT_STRING, <<self.paddingBits>> \o self.bits)

(***************************************************************************)
(* types/object_identifier.ts                                              *)
(***************************************************************************)
ASN1ObjectIdentifier(bytes) == [type |-> "ASN1ObjectIdentifier", oid |-> bytes]

\* The loop of readOIDSubidentifier: {err, value, data}.
RECURSIVE OIDSubidentifierLoop(_, _, _)
OIDSubidentifierLoop(data, value, firstByte) ==
    IF Len(data) = 0
    THEN [err |-> TruncatedASN1Field, value |-> value, data |-> data]
    ELSE LET byte == data[1]
         IN  IF firstByte /\ byte = 128
             THEN [err |-> InvalidASN1Object, value |-> value,
                   data |-> Drop(data, 1)]
             ELSE LET v == value * 128 + (byte % 128)
                  IN  IF byte < 128
                      THEN [err |-> NoError, value |-> v, data |-> Drop(data, 1)]
                      ELSE OIDSubidentifierLoop(Drop(data, 1), v, FALSE)

readOIDSubidentifier(data) == OIDSubidentifierLoop(data, 0, TRUE)

\* a validation that reads the first sub-identifier only
ValidateFirstOID(data) ==
    IF Len(data) = 0 THEN NoError ELSE readOIDSubidentifier(data).err

\* while (state.data.length > 0) this.readOIDSubidentifier(state): the error
\* thrown, or NoError
RECURSIVE ValidateOID(_)
ValidateOID(data) ==
    IF Len(data) = 0 THEN NoError
    ELSE LET r == readOIDSubidentifier(data)
         IN  IF r.err # NoError THEN r.err ELSE ValidateOID(r.data)

ObjectIdentifier_fromDERNodeWithIdentifier(node, identifier) ==
    IF IdentifierAndShape(node, identifier) # NoError
    THEN Thrown(IdentifierAndShape(node, identifier))
    ELSE LET bytes == node.value
         IN  IF Len(bytes) = 0 THEN Thrown(InvalidASN1Object)
             ELSE IF ValidateOID(bytes) # NoError THEN Thrown(ValidateOID(bytes))
             ELSE Returned(ASN1ObjectIdentifier(bytes))

\* while (temp > 0n) { stack.push(Number(temp & 0x7fn)); temp >>= 7n } --
\* then stack.reverse()
RECURSIVE OIDStack(_)
OIDStack(temp) ==
    IF temp > 0 THEN Append(OIDStack(temp \div 128), temp % 128) ELSE <<>>

\* The bytes pushed on buf.
writeOIDSubidentifier(value) ==
    IF value = 0 THEN <<0>>
    ELSE LET stack == OIDStack(value)
         IN  [i \in 1..Len(stack) |->
                 IF i < Len(stack) THEN stack[i] + 128 ELSE stack[i]]

\* for (let i = 2; i < components.length; i++) writeOIDSubidentifier(...)
RECURSIVE WriteComponentsFrom(_, _)
WriteComponentsFrom(list, i) ==
    IF i >= Len(list) THEN <<>>
    ELSE writeOIDSubidentifier(list[i + 1]) \o WriteComponentsFrom(list, i + 1)

\* ASN1ObjectIdentifier.fromComponents(list): {err, value}
fromComponents(list) ==
    IF Len(list) < 2 THEN Thrown(TooFewOIDComponents)
    ELSE LET first == list[1]
             second == list[2]
         IN  IF first > 2 THEN Thrown(InvalidASN1Object)
             ELSE IF first < 2 /\ second > 39 THEN Thrown(InvalidASN1Object)
             ELSE Returned(ASN1ObjectIdentifier(
                      writeOIDSubidentifier(first * 40 + second)
                          \o WriteComponentsFrom(list, 2)))

\* while (state.data.length > 0) components.push(readOIDSubidentifier(state)):
\* {err, items}
RECURSIVE ReadComponents(_, _)
ReadComponents(data, items) ==
    IF Len(data) = 0 THEN [err |-> NoError, items |-> items]
    ELSE LET r == readOIDSubidentifier(data)
         IN  IF r.err # NoError THEN [err |-> r.err, items |-> <<>>]
             ELSE ReadComponents(r.data, Append(items, r.value))

\* get components() of an OID: {err, items}
OIDComponents(self) ==
    IF Len(self.oid) = 0 THEN [err |-> InvalidASN1Object, items |-> <<>>]
    ELSE LET firstVal == readOIDSubidentifier(self.oid)
         IN  IF firstVal.err # NoError
             THEN [err |-> firstVal.err, items |-> <<>>]
             ELSE ReadComponents(firstVal.data,
                                 <<firstVal.value \div 40, firstVal.value % 40>>)

ObjectIdentifier_serialize(buffer, self) ==
    appendPrimitiveNode(buffer, ID_OBJECT_IDENTIFIER, self.oid)

(***************************************************************************)
(* types/real.ts: decoding.  A number is kept as the factors the decoder   *)
(* multiplies: sign * mantissa * 2^scaleFactor * base^exponent.  A bigint  *)
(* of up to 64 bits is kept as its base-256 digits, big-endian, without    *)
(* leading zero digits: <<>> is 0n.                                        *)
(***************************************************************************)
IsZeroBig(d) == \A i \in 1..Len(d) : d[i] = 0

\* the digits of d without the leading zero digits
RECURSIVE BigUint(_)
BigUint(d) ==
    IF Len(d) = 0 THEN <<>>
    ELSE IF d[1] = 0 THEN BigUint(Drop(d, 1))
    ELSE d

ASN1Real(value) == [type |-> "ASN1Real", real |-> value]

RealZero == [kind |-> "zero"]
RealInfinity(sign) == [kind |-> "infinity", sign |-> sign]
RealProduct(sign, mantissa, scaleFactor, radix, exponent) ==
    [kind |-> "product", sign |-> sign, mantissa |-> mantissa,
     scaleFactor |-> scaleFactor, base |-> radix, exponent |-> exponent]

\* [2, 8, 16][baseEncoding] || 2
RealBase(baseEncoding) ==
    IF baseEncoding = 0 THEN 2
    ELSE IF baseEncoding = 1 THEN 8
    ELSE IF baseEncoding = 2 THEN 16
    ELSE 2

\* The binary branch (lines 52-94 of real.ts).  With expLenBits = 3 and no
\* second byte expLen is undefined: the length check compares with NaN and
\* passes, the exponent stays 0 and subarray(NaN) is the whole content.
RealBinary(bytes) ==
    LET first == bytes[1]
        sign == IF (first \div 64) % 2 = 1 THEN -1 ELSE 1
        radix == RealBase((first \div 16) % 4)
        scaleFactor == (first \div 4) % 4
        expLenBits == first % 4
    IN  IF expLenBits = 3 /\ Len(bytes) < 2
        THEN Returned(ASN1Real(RealProduct(sign, BigUint(bytes), scaleFactor,
                                           radix, 0)))
        ELSE
        LET offset == IF expLenBits = 3 THEN 2 ELSE 1
            expLen == IF expLenBits = 3 THEN bytes[2] ELSE expLenBits + 1
        IN  IF Len(bytes) < offset + expLen THEN Thrown(InvalidASN1Object)
            ELSE
            LET expBytes == SubSeq(bytes, offset + 1, offset + expLen)
                unsignedExp == UintBE(expBytes, 0)
                exponent == IF expLen > 0 /\ expBytes[1] >= 128
                            THEN unsignedExp - Pow(2, expLen * 8)
                            ELSE unsignedExp
                mantissa == BigUint(Drop(bytes, offset + expLen))
            IN  Returned(ASN1Real(RealProduct(sign, mantissa, scaleFactor,
                                              radix, exponent)))

Real_fromDERNodeWithIdentifier(node, identifier) ==
    IF IdentifierAndShape(node, identifier) # NoError
    THEN Thrown(IdentifierAndShape(node, identifier))
    ELSE LET bytes == node.value
         IN  IF Len(bytes) = 0 THEN Returned(ASN1Real(RealZero))
             ELSE IF bytes[1] = 64 THEN Returned(ASN1Real(RealInfinity(1)))
             ELSE IF bytes[1] = 65 THEN Returned(ASN1Real(RealInfinity(-1)))
             ELSE IF bytes[1] >= 128 THEN RealBinary(bytes)
             ELSE Thrown(InvalidASN1Object)

(***************************************************************************)
(* types/real.ts: encoding.  The number of an ASN1Real that is serialized  *)
(* is kept as the eight bytes that dv.setFloat64(0, value) writes.         *)
(***************************************************************************)
RealDouble(ieee) == [kind |-> "double", ieee |-> ieee]

\* Number((bits >> 52n) & 0x7ffn)
BiasedExponent(ieee) == (ieee[1] % 128) * 16 + ieee[2] \div 16

\* bits & 0x000fffffffffffffn, as seven digits
Fraction(ieee) == <<ieee[2] % 16>> \o SubSeq(ieee, 3, 8)

\* (bits >> 63n) === 1n
SignBit(ieee) == ieee[1] >= 128

\* this.value === 0, isFinite(this.value), isNaN(this.value), this.value > 0
DoubleIsZero(ieee) == BiasedExponent(ieee) = 0 /\ IsZeroBig(Fraction(ieee))
DoubleIsFinite(ieee) == BiasedExponent(ieee) # 2047
DoubleIsNaN(ieee) == BiasedExponent(ieee) = 2047 /\ ~IsZeroBig(Fraction(ieee))
DoubleIsPositive(ieee) ==
    ~DoubleIsNaN(ieee) /\ ~DoubleIsZero(ieee) /\ ~SignBit(ieee)

\* while (mantissa > 0n && (mantissa & 0xffn) === 0n)
\*     { mantissa >>= 8n; exponent += 8 }
RECURSIVE TrimZeroBytes(_, _)
TrimZeroBytes(mantissa, exponent) ==
    IF ~IsZeroBig(mantissa) /\ mantissa[Len(mantissa)] = 0
    THEN TrimZeroBytes(SubSeq(mantissa, 1, Len(mantissa) - 1), exponent + 8)
    ELSE [mantissa |-> mantissa, exponent |-> exponent]

\* mantissa >> 1n
ShiftRightOne(d) ==
    [i \in 1..Len(d) |->
        (IF i = 1 THEN 0 ELSE (d[i - 1] % 2) * 128) + d[i] \div 2]

\* while (mantissa > 0n && (mantissa & 1n) === 0n)
\*     { mantissa >>= 1n; exponent += 1 }
RECURSIVE TrimZeroBits(_, _)
TrimZeroBits(mantissa, exponent) ==
    IF ~IsZeroBig(mantissa) /\ mantissa[Len(mantissa)] % 2 = 0
    THEN TrimZeroBits(ShiftRightOne(mantissa), exponent + 1)
    ELSE [mantissa |-> mantissa, exponent |-> exponent]

\* while (temp !== 0n && temp !== -1n)
\*     { bytes.push(Number(temp & 0xffn)); temp >>= 8n }: {bytes, temp}
RECURSIVE I64Loop(_, _)
I64Loop(bytes, temp) ==
    IF temp # 0 /\ temp # -1
    THEN I64Loop(Append(bytes, temp % 256), temp \div 256)
    ELSE [bytes |-> bytes, temp |-> temp]

\* bytes[bytes.length - 1]! & 0x80, which is 0 when bytes is empty
LastHighBit(bytes) ==
    IF Len(bytes) = 0 THEN 0 ELSE (bytes[Len(bytes)] \div 128) * 128

encodeI64(v) ==
    IF v = 0 THEN <<0>>
    ELSE LET l == I64Loop(<<>>, v)
             signed ==
                 IF l.temp = 0
                 THEN IF LastHighBit(l.bytes) # 0 THEN Append(l.bytes, 0)
                      ELSE l.bytes
                 ELSE IF LastHighBit(l.bytes) = 0 THEN Append(l.bytes, 255)
                      ELSE l.bytes
             bytes == IF Len(signed) = 0
                      THEN <<IF v < 0 THEN 255 ELSE 0>>
                      ELSE signed
         IN  Reverse(bytes)

encodeU64(v) == IF IsZeroBig(v) THEN <<0>> ELSE BigUint(v)

\* The sign, mantissa and exponent that the writer encodes for a finite
\* number that is not zero.
RealFactors(ieee) ==
    LET exponent == BiasedExponent(ieee) - 1023
        mantissa == Fraction(ieee)
        denormal == exponent = -1023
        e1 == (IF denormal THEN -1022 ELSE exponent) - 52
        m1 == IF denormal THEN mantissa
              ELSE [mantissa EXCEPT ![1] = @ + 16]
        t8 == TrimZeroBytes(m1, e1)
        t1 == TrimZeroBits(t8.mantissa, t8.exponent)
    IN  [sign |-> SignBit(ieee), mantissa |-> t1.mantissa,
         exponent |-> t1.exponent]

\* The writer of serializeWithIdentifier: {err, content}.
RealWriter(ieee) ==
    IF DoubleIsZero(ieee) THEN [err |-> NoError, content |-> <<>>]
    ELSE IF ~DoubleIsFinite(ieee)
    THEN [err |-> NoError,
          content |-> <<IF DoubleIsPositive(ieee) THEN 64 ELSE 65>>]
    ELSE IF DoubleIsNaN(ieee) THEN [err |-> InvalidASN1Object, content |-> <<>>]
    ELSE LET f == RealFactors(ieee)
             expBytes == encodeI64(f.exponent)
             firstByte == 128 + (IF f.sign THEN 64 ELSE 0)
             head == IF Len(expBytes) <= 3
                     THEN <<firstByte + (Len(expBytes) - 1)>>
                     ELSE <<firstByte + 3, Len(expBytes)>>
         IN  [err |-> NoError,
              content |-> head \o expBytes \o encodeU64(f.mantissa)]

Real_serializeWithIdentifier(buffer, self, identifier) ==
    appendPrimitiveNode(buffer, identifier, RealWriter(self.real.ieee).content)

(***************************************************************************)
(* types/strings.ts.  A string is its sequence of code points.             *)
(***************************************************************************)
ASN1UTF8String(value) == [type |-> "ASN1UTF8String", str |-> value]

\* new TextDecoder("utf-8").decode(bytes), for content made of one-byte and
\* two-byte forms: a byte that starts no well-formed sequence decodes to
\* U+FFFD.  Lead bytes E0..F4 do not occur in the contents used here.
RECURSIVE TextDecode(_)
TextDecode(bytes) ==
    IF Len(bytes) = 0 THEN <<>>
    ELSE LET b == bytes[1]
         IN  IF b < 128 THEN <<b>> \o TextDecode(Drop(bytes, 1))
             ELSE IF b >= 194 /\ b <= 223 /\ Len(bytes) >= 2
                     /\ bytes[2] >= 128 /\ bytes[2] <= 191
             THEN <<(b - 192) * 64 + (bytes[2] - 128)>>
                      \o TextDecode(Drop(bytes, 2))
             ELSE <<65533>> \o TextDecode(Drop(bytes, 1))

\* The one decoder of the three string classes: it builds an ASN1UTF8String
\* whatever class it is called on.
UTF8String_fromDERNodeWithIdentifier(node, identifier) ==
    IF IdentifierAndShape(node, identifier) # NoError
    THEN Thrown(IdentifierAndShape(node, identifier))
    ELSE Returned(ASN1UTF8String(TextDecode(node.value)))

\* new TextEncoder().encode(value): the UTF-8 form of every code point, for
\* code points below 65536 that are no surrogates
RECURSIVE TextEncode(_)
TextEncode(str) ==
    IF Len(str) = 0 THEN <<>>
    ELSE LET c == str[1]
         IN  (IF c < 128 THEN <<c>>
              ELSE IF c < 2048 THEN <<192 + (c \div 64), 128 + (c % 64)>>
              ELSE <<224 + (c \div 4096), 128 + ((c \div 64) % 64),
                     128 + (c % 64)>>)
                 \o TextEncode(Drop(str, 1))

\* serializeWithIdentifier(serializer, identifier) of a string object
UTF8String_serializeWithIdentifier(buffer, self, identifier) ==
    appendPrimitiveNode(buffer, identifier, TextEncode(self.str))

\* serialize(serializer) of an ASN1UTF8String object: this.defaultIdentifier()
\* is the method of ASN1UTF8String
UTF8String_serialize(buffer, self) ==
    UTF8String_serializeWithIdentifier(buffer, self, ID_UTF8_STRING)

(***************************************************************************)
(* The decoders by class.  A class is named as in the code, without the    *)
(* ASN1 prefix.                                                            *)
(***************************************************************************)
StringClasses == {"UTF8String", "IA5String", "PrintableString"}

Classes ==
    {"Integer", "Boolean", "Null", "OctetString", "BitString",
     "ObjectIdentifier", "Real"} \cup StringClasses

\* static defaultIdentifier() of the class
defaultIdentifier(class) ==
    CASE class = "Integer" -> ID_INTEGER
      [] class = "Boolean" -> ID_BOOLEAN
      [] class = "Null" -> ID_NULL
      [] class = "OctetString" -> ID_OCTET_STRING
      [] class = "BitString" -> ID_BIT_STRING
      [] class = "ObjectIdentifier" -> ID_OBJECT_IDENTIFIER
      [] class = "Real" -> ID_REAL
      [] class = "UTF8String" -> ID_UTF8_STRING
      [] class = "IA5String" -> ID_IA5_STRING
      [] class = "PrintableString" -> ID_PRINTABLE_STRING

\* static fromDERNodeWithIdentifier(node, identifier) of the class
fromDERNodeWithIdentifier(class, node, identifier) ==
    CASE class = "Integer" -> Integer_fromDERNodeWithIdentifier(node, identifier)
      [] class = "Boolean" -> Boolean_fromDERNodeWithIdentifier(node, identifier)
      [] class = "Null" -> Null_fromDERNodeWithIdentifier(node, identifier)
      [] class = "OctetString" ->
             OctetString_fromDERNodeWithIdentifier(node, identifier)
      [] class = "BitString" ->
             BitString_fromDERNodeWithIdentifier(node, identifier)
      [] class = "ObjectIdentifier" ->
             ObjectIdentifier_fromDERNodeWithIdentifier(node, identifier)
      [] class = "Real" -> Real_fromDERNodeWithIdentifier(node, identifier)
      [] class \in StringClasses ->
             UTF8String_fromDERNodeWithIdentifier(node, identifier)

\* static fromDERNode(node): this.fromDERNodeWithIdentifier(node,
\* this.defaultIdentifier()), this being the class it is called on
fromDERNode(class, node) ==
    fromDERNodeWithIdentifier(class, node, defaultIdentifier(class))

\* The class whose static fromDERNode the instance method fromDERNode(node)
\* calls: the string subclasses inherit the method of ASN1UTF8String, which
\* names ASN1UTF8String.
InstanceDecoderClass(class) ==
    IF class \in StringClasses THEN "UTF8String" ELSE class

\* the instance method fromDERNode(node) of an object of the class
instanceFromDERNode(class, node) == fromDERNode(InstanceDecoderClass(class), node)

\* serialize(serializer) of a value: the buffer after the call
serialize(buffer, self) ==
    CASE self.type = "ASN1Integer" ->
             Integer_serializeWithIdentifier(buffer, self, ID_INTEGER)
      [] self.type = "ASN1Boolean" -> Boolean_serialize(buffer, self)
      [] self.type = "ASN1BitString" -> BitString_serialize(buffer, self)
      [] self.type = "ASN1ObjectIdentifier" ->
             ObjectIdentifier_serialize(buffer, self)
      [] self.type = "ASN1Real" ->
             Real_serializeWithIdentifier(buffer, self, ID_REAL)
      [] self.type = "ASN1UTF8String" -> UTF8String_serialize(buffer, self)

\* the error that the content writer of self.serialize throws, or NoError
WriterError(self) ==
    IF self.type = "ASN1Real" THEN RealWriter(self.real.ieee).err ELSE NoError

(***************************************************************************)
(* der.ts: a call on the Serializer with a writer that may throw.  A call  *)
(* names the method, its identifier and what the writer does: the writer   *)
(* of a primitive node pushes payload, the writer of a constructed node    *)
(* appends one OCTET STRING of payload to the nested Serializer, and either*)
(* throws after that if throws is set.  writeNode is called on the node of *)
(* parsed, which parse returned, serialize on value.                       *)
(***************************************************************************)
Call(op, identifier, payload, throws, parsed, value) ==
    [type |-> "Call", op |-> op, identifier |-> identifier,
     payload |-> payload, throws |-> throws, parsed |-> parsed, value |-> value]

\* what a throwing writer throws
WriterThrew == "Error"

\* the sink of the call's writer when the writer returns or throws: the
\* array content of appendPrimitiveNode, the buffer of nested of
\* appendConstructedNode
WriterSink(call) ==
    [err |-> IF call.throws THEN WriterThrew ELSE NoError,
     content |-> IF call.op = "appendPrimitiveNode" THEN call.payload
                 ELSE appendPrimitiveNode(<<>>, ID_OCTET_STRING, call.payload)]

\* a Serializer whose writers push to its own buffer
AppendCallUnscoped(buffer, call) ==
    IF call.op = "writeNode"
    THEN [err |-> NoError,
          buffer |-> writeNode(buffer, call.parsed.nodes, call.parsed.node)]
    ELSE IF call.op = "serialize"
    THEN [err |-> NoError, buffer |-> serialize(buffer, call.value)]
    ELSE LET w == WriterSink(call)
             constructed == call.op # "appendPrimitiveNode"
         IN  IF w.err # NoError
             THEN [err |-> w.err, buffer |-> buffer \o w.content]
             ELSE [err |-> NoError,
                   buffer |-> appendNode(buffer, call.identifier, constructed,
                                         w.content)]

\* The call on a Serializer whose buffer is buffer: the error thrown and the
\* buffer after the call.  The writer runs before appendNode.
AppendCall(buffer, call) ==
    CASE call.op = "appendPrimitiveNode" ->
             LET w == WriterSink(call)
             IN  IF w.err # NoError THEN [err |-> w.err, buffer |-> buffer]
                 ELSE [err |-> NoError,
                       buffer |-> appendPrimitiveNode(buffer, call.identifier,
                                                      w.content)]
      [] call.op \in {"appendConstructedNode", "writeSequence", "writeSet"} ->
             LET w == WriterSink(call)
             IN  IF w.err # NoError THEN [err |-> w.err, buffer |-> buffer]
                 ELSE [err |-> NoError,
                       buffer |-> appendConstructedNode(buffer, call.identifier,
                                                        w.content)]
      [] call.op = "writeNode" ->
             [err |-> NoError,
              buffer |-> writeNode(buffer, call.parsed.nodes, call.parsed.node)]
      [] call.op = "serialize" ->
             IF WriterError(call.value) # NoError
             THEN [err |-> WriterError(call.value), buffer |-> buffer]
             ELSE [err |-> NoError, buffer |-> serialize(buffer, call.value)]

(***************************************************************************)
(* der.ts: sequence and sequenceOf                                         *)
(***************************************************************************)
\* The two checks sequence and sequenceOf start with.
ConstructedWithIdentifier(node, identifier) ==
    IF ~IdEquals(node.identifier, identifier) THEN UnexpectedFieldType
    ELSE IF ~node.constructed THEN UnexpectedFieldType
    ELSE NoError

\* sequence without the check for children left over
SequenceEndUnchecked(nodes, it, built) == Returned(built)

\* The end of sequence (lines 82-86): built is what the builder returned,
\* it the iterator it was given, as the builder left it.
SequenceEnd(nodes, it, built) ==
    IF IterPeek(nodes, it) # NullNode THEN Thrown(InvalidASN1Object)
    ELSE Returned(built)

ResultList(results) == [type |-> "Array", items |-> results]

\* parser(node), the callback of sequenceOf: the static fromDERNode of a
\* class, or (n) => n under the name "Node"
ApplyParser(class, node) ==
    IF class = "Node" THEN Returned(node) ELSE fromDERNode(class, node)

\* sequenceOf whose loop ends after the first child
SequenceOfFirstChild(nodes, it, class, results) ==
    LET n == IterNext(nodes, it)
    IN  IF n.done THEN Returned(ResultList(results))
        ELSE LET r == ApplyParser(class, n.value)
             IN  IF r.err # NoError THEN r
                 ELSE Returned(ResultList(Append(results, r.value)))

\* for (const node of rootNode.content.value) results.push(parser(node))
RECURSIVE SequenceOfLoop(_, _, _, _)
SequenceOfLoop(nodes, it, class, results) ==
    LET n == IterNext(nodes, it)
    IN  IF n.done THEN Returned(ResultList(results))
        ELSE LET r == ApplyParser(class, n.value)
             IN  IF r.err # NoError THEN r
                 ELSE SequenceOfLoop(nodes, n.it, class, Append(results, r.value))

sequenceOf(identifier, nodes, rootNode, class) ==
    IF ConstructedWithIdentifier(rootNode, identifier) # NoError
    THEN Thrown(ConstructedWithIdentifier(rootNode, identifier))
    ELSE SequenceOfLoop(nodes, ASN1NodeCollectionIterator(rootNode.coll),
                        class, <<>>)

(***************************************************************************)
(* The parser scenarios.  An input is identifier octets, then length       *)
(* octets, then a tail; every part may be missing or malformed.  The long  *)
(* tails serve as a primitive payload and, inside a constructed node, as a *)
(* run of 67-byte elements 41 41 <65 octets>.                              *)
(***************************************************************************)
MaxLenOctets == 2
MaxResume == 3

SeqsUpTo(S, n) == UNION {[1..k -> S] : k \in 0..n}

\* identifiers whose octets are all there
WholeIdents ==
    { <<4>>, <<48>>, <<0>>, <<36>>, <<31, 30>>, <<31, 31>>,
      <<159, 100>>, <<159, 128, 100>>, <<191, 129, 0>> }

\* identifiers that stop before their last octet
CutIdents == { <<>>, <<31>>, <<159, 129>> }

LenBytes == {0, 1, 2, 128, 129, 130}

PlainLenParts == SeqsUpTo(LenBytes, MaxLenOctets)

LenParts ==
    PlainLenParts
        \cup { <<129, 127>>, <<129, 128>>, <<129, 129>>, <<129, 200>>,
               <<130, 0, 200>>, <<130, 1, 0>> }

ShortTails ==
    { <<>>, <<0>>, <<0, 0>>, <<5, 0>>, <<5, 0, 5, 0>>, <<4, 1, 97>>,
      <<0, 0, 0, 0>>, <<4, 1>> }

Tails ==
    ShortTails
        \cup { Fill(127, 65), Fill(128, 65), Fill(129, 65), Fill(199, 65),
               Fill(200, 65), Fill(201, 65), Fill(256, 65) }

FlatInputs ==
    { i \o l \o t : i \in WholeIdents, l \in LenParts, t \in Tails }
        \cup { i \o l \o t : i \in CutIdents, l \in PlainLenParts,
                               t \in ShortTails }

\* d definite-length SEQUENCE headers around core
RECURSIVE Nest(_, _)
Nest(d, core) ==
    IF d = 0 THEN core
    ELSE LET inner == Nest(d - 1, core) IN <<48, Len(inner)>> \o inner

\* d indefinite-length SEQUENCE headers around core, each closed by 00 00
RECURSIVE NestIndefinite(_, _)
NestIndefinite(d, core) ==
    IF d = 0 THEN core
    ELSE <<48, 128>> \o NestIndefinite(d - 1, core) \o <<0, 0>>

MaxNest == 3

NestDepths == 1..MaxNest

Cores == { <<>>, <<5, 0>>, <<48, 0>>, <<5, 0, 5, 0>>, <<48, 2, 0, 0>>, <<5>> }

NestedInputs ==
    { Nest(d, c) : d \in NestDepths, c \in Cores }
        \cup { NestIndefinite(d, c) : d \in NestDepths, c \in Cores }
        \cup { <<48, 128>> \o Nest(1, c) \o <<0, 0>> : c \in Cores }

\* definite-length children of an indefinite-length node, with and without
\* an element 00 00 as their last descendant
EndMarkerChildren ==
    { <<5, 0>>, <<48, 0>>, <<4, 2, 0, 0>>, <<48, 2, 0, 0>>, <<48, 2, 5, 0>>,
      <<48, 4, 5, 0, 0, 0>>, <<48, 4, 48, 2, 0, 0>> }

\* an indefinite-length node of up to two such children and its
\* end-of-contents octets
EndMarkerInputs ==
    { <<48, 128>> \o a \o b \o <<0, 0>> :
          a \in EndMarkerChildren \cup {<<>>}, b \in EndMarkerChildren }
        \cup { <<48, 128, 0, 0>>, <<48, 128, 48, 128, 0, 0, 0, 0>> }

\* a definite-length SEQUENCE of two of these children
SiblingInputs ==
    { Nest(1, a \o b) : a \in EndMarkerChildren, b \in EndMarkerChildren }

Inputs == FlatInputs \cup NestedInputs \cup EndMarkerInputs \cup SiblingInputs

\* k two-byte NULL elements, then rest
RECURSIVE Nulls(_, _)
Nulls(k, rest) == IF k = 0 THEN rest ELSE <<5, 0>> \o Nulls(k - 1, rest)

ResumeInputs ==
    { Nulls(k, r) : k \in 0..MaxResume,
                    r \in { <<>>, <<48, 0>>, <<48, 2, 5, 0>>, <<48, 2, 48, 0>>,
                            <<48, 4, 48, 2, 5, 0>>, <<5>> } }

\* The parser inside the child loop of a definite-length constructed node
\* of depth level, after count calls of _parseNode: the whole-parse inputs
\* cannot reach the caps (the node cap needs 200 000 bytes of input), so these
\* scenarios start next to them.
ResumeCounts ==
    {1, 2} \cup ((MAXIMUM_TOTAL_NODES - MaxResume) .. MAXIMUM_TOTAL_NODES)

ResumeLevels ==
    {1, 2} \cup ((MAXIMUM_NODE_DEPTH - 2) .. MAXIMUM_NODE_DEPTH)

NoResult == [err |-> NoError, nodes |-> <<>>]
NoRoot == [err |-> NoError, node |-> NullNode, nodes |-> <<>>]
NoDecoder == [kind |-> "none"]
NoDecoded == [err |-> NoError, value |-> NoValue]
NoIter ==
    [node |-> NullNode, it |-> ASN1NodeCollectionIterator(NoCollection),
     yielded |-> <<>>, peeks |-> <<>>, done |-> FALSE]
NoArgs == [type |-> "none"]
NoComps == [from |-> "none", err |-> NoError, items |-> <<>>]

InitParse ==
    /\ rules \in {Distinguished, Basic}
    /\ \/ pc = "start" /\ base = 0 /\ level = 0 /\ input \in Inputs
       \/ /\ pc = "loop"
          /\ base \in ResumeCounts
          /\ level \in ResumeLevels
          /\ level <= base
          /\ input \in ResumeInputs
    /\ result = NoResult
    /\ root = NoRoot
    /\ out = <<>>
    /\ obj = NoValue /\ decoder = NoDecoder
    /\ decoded = NoDecoded /\ iter = NoIter
    /\ args = NoArgs /\ comps = NoComps /\ thrown = NoError

\* ParseResult.parse(input, rules)
Parse ==
    /\ pc = "start"
    /\ result' = ParseResultParse(input, rules)
    /\ pc' = "parsed"
    /\ UNCHANGED <<input, rules, base, level, root, out, obj, decoder,
                   decoded, iter, args, comps, thrown>>

\* The child loop of a definite-length constructed node of depth level
\* (lines 119-123) with checkSub.nodeCount = base and checkSub.data = input.
\* result.nodes holds the nodes pushed from here on.
ParseLoop ==
    /\ pc = "loop"
    /\ LET checkSub == DefiniteLoop(Ctx(input, base, <<>>), rules, level)
       IN  result' = [err |-> checkSub.err, count |-> checkSub.nodeCount,
                      nodes |-> IF checkSub.err = NoError THEN checkSub.nodes
                                ELSE <<>>]
    /\ pc' = "looped"
    /\ UNCHANGED <<input, rules, base, level, root, out, obj, decoder,
                   decoded, iter, args, comps, thrown>>

\* parse(input) of der.ts
PublicParse ==
    /\ pc = "start"
    /\ rules = Distinguished
    /\ root' = DerParse(input)
    /\ pc' = "viewed"
    /\ UNCHANGED <<input, rules, base, level, result, out, obj, decoder,
                   decoded, iter, args, comps, thrown>>

\* new Serializer().writeNode(parse(input))
WriteNode ==
    /\ pc = "viewed"
    /\ root.err = NoError
    /\ out' = writeNode(out, root.nodes, root.node)
    /\ pc' = "written"
    /\ UNCHANGED <<input, rules, base, level, result, root, obj, decoder,
                   decoded, iter, args, comps, thrown>>

NextParse == Parse \/ ParseLoop \/ PublicParse \/ WriteNode

SpecParse == InitParse /\ [][NextParse]_vars

(***************************************************************************)
(* Encoding a value, parsing what was emitted and decoding it.             *)
(***************************************************************************)
MaxIntBits == 16

\* The values around every power of two up to 2^MaxIntBits, of both signs,
\* and the largest values of three and four content bytes.
IntValues ==
    {0} \cup { s * (Pow(2, k) + d) : s \in {1, -1}, k \in 0..MaxIntBits,
                                     d \in {-1, 0, 1} }
        \cup {8388607, 8388608, 2147483647}

\* how a decoder is called: Class.fromDERNode(node), object.fromDERNode(node)
\* or Class.fromDERNodeWithIdentifier(node, identifier)
Forms == {"static", "instance", "withIdentifier"}

ValueDecoder(class, form, identifier) ==
    [kind |-> "value", class |-> class, form |-> form, identifier |-> identifier]


\* the call the decoder stands for, on node
DecodeNode(dec, node) ==
    IF dec.form = "static" THEN fromDERNode(dec.class, node)
    ELSE IF dec.form = "instance" THEN instanceFromDERNode(dec.class, node)
    ELSE fromDERNodeWithIdentifier(dec.class, node, dec.identifier)

\* identifier octets, a short-form length, the content
TLV(ident, content) == ident \o <<Len(content)>> \o content

\* contents of primitive nodes: well-formed and malformed ones for every
\* value type
PrimitiveContents ==
    { <<>>, <<0>>, <<1>>, <<127>>, <<128>>, <<255>>,
      <<0, 127>>, <<0, 128>>, <<255, 127>>, <<255, 128>>, <<1, 0, 0>>,
      <<3, 160>>, <<3, 161>>, <<8, 0>>, <<7>>, <<7, 128>>, <<7, 192>>,
      <<0, 255, 1>>, <<1, 255, 2>>,
      <<42, 134, 72>>, <<42, 134>>, <<42, 128, 1>>,
      <<64>>, <<65>>, <<128, 0, 1>>, <<192, 254, 5>>, <<129, 0>>, <<131>>,
      <<131, 1, 255>>, <<131, 0, 3>>, <<9>>,
      <<72, 73>>, <<195, 169>>, <<195>>, <<200, 65>> }

MaxTagGroups == 3
MaxContent == 65536
MaxComponents == 3

\* tag numbers at the ends of the short form and of every number of
\* base-128 groups
TagNumbers ==
    {0, 4, 30, 31, 100}
        \cup { Pow(128, g) - 1 : g \in 1..MaxTagGroups }
        \cup { Pow(128, g) : g \in 1..(MaxTagGroups - 1) }

\* content lengths at the ends of the short form and of every number of
\* length octets
ContentLengths == {0, 1, 126, 127, 128, 255, 256, MaxContent}

\* A call of appendPrimitiveNode or appendConstructedNode: the identifier
\* and what the writer does.  The writer of a primitive node pushes payload;
\* the writer of a constructed node appends one OCTET STRING of payload to
\* the nested Serializer.
Writer(identifier, constructed, payload) ==
    [type |-> "Writer", identifier |-> identifier, constructed |-> constructed,
     payload |-> payload]

Writers ==
    { Writer(ASN1Identifier(t, c), k, Fill(n, 97)) :
          t \in TagNumbers, c \in {Universal, Application, ContextSpecific, Private},
          k \in BOOLEAN, n \in ContentLengths }

\* the calls made on a Serializer that has emitted a node
Calls ==
    { Call(op, ASN1Identifier(0, ContextSpecific), p, t, NoRoot, NoValue) :
          op \in {"appendPrimitiveNode", "appendConstructedNode"},
          p \in {<<>>, <<97>>}, t \in BOOLEAN }
        \cup { Call("writeSequence", ID_SEQUENCE, p, t, NoRoot, NoValue) :
                   p \in {<<>>, <<97>>}, t \in BOOLEAN }
        \cup { Call("writeSet", ID_SET, p, t, NoRoot, NoValue) :
                   p \in {<<>>, <<97>>}, t \in BOOLEAN }
        \cup { Call("writeNode", ID_NULL, <<>>, FALSE, DerParse(b), NoValue) :
                   b \in { <<5, 0>>, <<48, 0>>, <<48, 4, 49, 2, 5, 0>> } }
        \cup { Call("serialize", ID_NULL, <<>>, FALSE, NoRoot, v) :
                   v \in { ASN1Integer(-1), ASN1Boolean(TRUE),
                           ASN1Real(RealDouble(<<127, 248, 0, 0, 0, 0, 0, 0>>)) } }

BitData == { <<>>, <<0>>, <<160>>, <<161>>, <<255>>, <<1, 128>>, <<255, 254>> }

BitStrings ==
    { v \in { ASN1BitString(b, p) : b \in BitData, p \in 0..7 } :
          BitStringAccepted(v.bits, v.paddingBits) }

\* The IEEE-754 bytes of doubles with the sign bit clear: 0, 3.14, 0.5,
\* 1, 2, 0.1, 256, 1 + 2^-52, 2^127, 2^128, 2^-128, 2^-129, the least and
\* the greatest denormal, the least and the greatest normal, infinity and
\* three NaNs.
PositiveDoubles ==
    { <<0, 0, 0, 0, 0, 0, 0, 0>>,
      <<64, 9, 30, 184, 81, 235, 133, 31>>,
      <<63, 224, 0, 0, 0, 0, 0, 0>>,
      <<63, 240, 0, 0, 0, 0, 0, 0>>,
      <<64, 0, 0, 0, 0, 0, 0, 0>>,
      <<63, 185, 153, 153, 153, 153, 153, 154>>,
      <<64, 112, 0, 0, 0, 0, 0, 0>>,
      <<63, 240, 0, 0, 0, 0, 0, 1>>,
      <<71, 224, 0, 0, 0, 0, 0, 0>>,
      <<71, 240, 0, 0, 0, 0, 0, 0>>,
      <<55, 240, 0, 0, 0, 0, 0, 0>>,
      <<55, 224, 0, 0, 0, 0, 0, 0>>,
      <<0, 0, 0, 0, 0, 0, 0, 1>>,
      <<0, 15, 255, 255, 255, 255, 255, 255>>,
      <<0, 0, 0, 0, 1, 0, 0, 0>>,
      <<0, 16, 0, 0, 0, 0, 0, 0>>,
      <<127, 239, 255, 255, 255, 255, 255, 255>>,
      <<127, 240, 0, 0, 0, 0, 0, 0>>,
      <<127, 248, 0, 0, 0, 0, 0, 0>>,
      <<127, 240, 0, 0, 0, 0, 0, 1>>,
      <<127, 255, 255, 255, 255, 255, 255, 255>> }

\* with either sign bit
Doubles ==
    { [d EXCEPT ![1] = @ + s] : d \in PositiveDoubles, s \in {0, 128} }

Values ==
    { ASN1Integer(v) : v \in IntValues }
        \cup { ASN1Boolean(b) : b \in BOOLEAN }
        \cup BitStrings
        \cup { ASN1Real(RealDouble(d)) : d \in Doubles }

\* the class of a value object
ClassOf(self) ==
    CASE self.type = "ASN1Integer" -> "Integer"
      [] self.type = "ASN1Boolean" -> "Boolean"
      [] self.type = "ASN1BitString" -> "BitString"
      [] self.type = "ASN1ObjectIdentifier" -> "ObjectIdentifier"
      [] self.type = "ASN1Real" -> "Real"

ComponentValues == {-1, 0, 1, 2, 3, 39, 40, 47, 128}

\* component lists of up to MaxComponents components, and the list of the
\* test
ComponentLists ==
    SeqsUpTo(ComponentValues, MaxComponents) \cup { <<1, 2, 840, 113549>> }

ComponentList(list) == [type |-> "Array", items |-> list]

\* bytes received: every content under the identifier of each class
CodecClasses ==
    {"Integer", "Boolean", "BitString", "ObjectIdentifier"} \cup StringClasses

CodecInputs ==
    { TLV(<<defaultIdentifier(c).tagNumber>>, b) :
          c \in CodecClasses, b \in PrimitiveContents }

\* identifiers handed to serializeWithIdentifier and
\* fromDERNodeWithIdentifier
TagIdentifiers ==
    { ASN1Identifier(0, ContextSpecific), ASN1Identifier(100, ContextSpecific),
      ASN1Identifier(5, Application), ID_OCTET_STRING, ID_INTEGER }

\* integers serialized under an identifier
TaggedIntValues == {0, 1, -1, 127, 128, -128, -129, 255, 256, 65535, -65536}

\* bytes received under the identifier [0]
TaggedInputs == { TLV(<<128>>, b) : b \in PrimitiveContents }

InitCodec ==
    /\ \/ /\ pc = "new"
          /\ obj \in Values
          /\ decoder = ValueDecoder(ClassOf(obj), "static",
                                    defaultIdentifier(ClassOf(obj)))
          /\ args = NoArgs /\ input = <<>>
       \/ /\ pc = "new"
          /\ obj \in { ASN1Integer(v) : v \in TaggedIntValues }
          /\ decoder \in { ValueDecoder("Integer", "withIdentifier", i) :
                               i \in TagIdentifiers }
          /\ args = NoArgs /\ input = <<>>
       \/ /\ pc = "start"
          /\ input \in TaggedInputs
          /\ decoder = ValueDecoder("Integer", "withIdentifier",
                                    ASN1Identifier(0, ContextSpecific))
          /\ obj = NoValue /\ args = NoArgs
       \/ /\ pc = "new"
          /\ obj \in Writers
          /\ decoder = NoDecoder
          /\ args = NoArgs /\ input = <<>>
       \/ /\ pc = "args"
          /\ args \in { ComponentList(l) : l \in ComponentLists }
          /\ obj = NoValue
          /\ decoder = ValueDecoder("ObjectIdentifier", "static",
                                    ID_OBJECT_IDENTIFIER)
          /\ input = <<>>
       \/ /\ pc = "start"
          /\ input \in CodecInputs
          /\ decoder \in { ValueDecoder(c, "static", defaultIdentifier(c)) :
                               c \in CodecClasses }
          /\ obj = NoValue /\ args = NoArgs
    /\ rules = Distinguished
    /\ base = 0 /\ level = 0
    /\ result = NoResult /\ root = NoRoot /\ out = <<>>
    /\ decoded = NoDecoded /\ iter = NoIter
    /\ comps = NoComps /\ thrown = NoError

\* ASN1ObjectIdentifier.fromComponents(args): the object, or the error in
\* comps
FromComponents ==
    /\ pc = "args"
    /\ LET r == fromComponents(args.items)
       IN  IF r.err # NoError
           THEN /\ comps' = [from |-> "fromComponents", err |-> r.err,
                             items |-> <<>>]
                /\ pc' = "failed"
                /\ UNCHANGED obj
           ELSE /\ obj' = r.value
                /\ pc' = "new"
                /\ UNCHANGED comps
    /\ UNCHANGED <<input, rules, base, level, result, root, out, decoder,
                   decoded, iter, args, thrown>>

\* object.components, on the object made by fromComponents
ComponentsOfObject ==
    /\ pc = "new"
    /\ obj.type = "ASN1ObjectIdentifier"
    /\ comps' = [from |-> "object", err |-> OIDComponents(obj).err,
                 items |-> OIDComponents(obj).items]
    /\ pc' = "read"
    /\ UNCHANGED <<input, rules, base, level, result, root, out, obj,
                   decoder, decoded, iter, args, thrown>>

\* decoded.components, on the object that fromDERNode returned
ComponentsOfDecoded ==
    /\ pc = "decoded"
    /\ decoded.err = NoError
    /\ decoded.value.type = "ASN1ObjectIdentifier"
    /\ comps' = [from |-> "decoded", err |-> OIDComponents(decoded.value).err,
                 items |-> OIDComponents(decoded.value).items]
    /\ pc' = "read"
    /\ UNCHANGED <<input, rules, base, level, result, root, out, obj,
                   decoder, decoded, iter, args, thrown>>

\* serializer.appendPrimitiveNode(identifier, writer) or
\* serializer.appendConstructedNode(identifier, writer) on a new Serializer
AppendNode ==
    /\ pc = "new"
    /\ obj.type = "Writer"
    /\ out' = IF obj.constructed
              THEN appendConstructedNode(out, obj.identifier,
                       appendPrimitiveNode(<<>>, ID_OCTET_STRING, obj.payload))
              ELSE appendPrimitiveNode(out, obj.identifier, obj.payload)
    /\ pc' = "serialized"
    /\ UNCHANGED <<input, rules, base, level, result, root, obj, decoder,
                   decoded, iter, args, comps, thrown>>

\* the longest buffer that a second call is followed from
MaxBuffer == 300

\* a second call on the Serializer that AppendNode was called on; args keeps
\* the call, thrown what it threw
AppendAgain ==
    /\ pc = "serialized"
    /\ obj.type = "Writer"
    /\ Len(out) <= MaxBuffer
    /\ \E call \in Calls :
          \E r \in {AppendCall(out, call)} :
              /\ args' = call
              /\ out' = r.buffer
              /\ thrown' = r.err
              /\ pc' = IF r.err = NoError THEN "appended" ELSE "failed"
    /\ UNCHANGED <<input, rules, base, level, result, root, obj, decoder,
                   decoded, iter, comps>>

\* value.serialize(serializer), or value.serializeWithIdentifier(serializer,
\* identifier), on a new Serializer
Serialize ==
    /\ pc = "new"
    /\ obj.type # "Writer"
    /\ IF WriterError(obj) # NoError
       THEN /\ thrown' = WriterError(obj)
            /\ pc' = "failed"
            /\ UNCHANGED out
       ELSE /\ out' = IF decoder.form = "withIdentifier"
                      THEN Integer_serializeWithIdentifier(
                               out, obj, decoder.identifier)
                      ELSE serialize(out, obj)
            /\ pc' = "serialized"
            /\ UNCHANGED thrown
    /\ UNCHANGED <<input, rules, base, level, result, root, obj, decoder,
                   decoded, iter, args, comps>>

\* parse(serializer.serializedBytes())
ParseSerialized ==
    /\ pc = "serialized"
    /\ root' = DerParse(out)
    /\ pc' = "viewed"
    /\ UNCHANGED <<input, rules, base, level, result, out, obj, decoder,
                   decoded, iter, args, comps, thrown>>

\* new Serializer().serialize(decoded) for a decoded string
SerializeDecoded ==
    /\ pc = "decoded"
    /\ decoded.err = NoError
    /\ decoded.value.type = "ASN1UTF8String"
    /\ out' = serialize(<<>>, decoded.value)
    /\ pc' = "reserialized"
    /\ UNCHANGED <<input, rules, base, level, result, root, obj, decoder,
                   decoded, iter, args, comps, thrown>>

\* the typed decoder on the parsed node
Decode ==
    /\ pc = "viewed"
    /\ root.err = NoError
    /\ decoder.kind = "value"
    /\ decoded' = DecodeNode(decoder, root.node)
    /\ pc' = "decoded"
    /\ UNCHANGED <<input, rules, base, level, result, root, out, obj,
                   decoder, iter, args, comps, thrown>>

\* Class.fromDERNode on a node that was written or is expected under
\* another identifier
DecodeDefault ==
    /\ pc = "viewed"
    /\ root.err = NoError
    /\ decoder.kind = "value"
    /\ decoder.form = "withIdentifier"
    /\ decoded' = fromDERNode(decoder.class, root.node)
    /\ pc' = "decodedDefault"
    /\ UNCHANGED <<input, rules, base, level, result, root, out, obj,
                   decoder, iter, args, comps, thrown>>

NextCodec ==
    \/ FromComponents
    \/ ComponentsOfObject
    \/ Serialize
    \/ AppendNode
    \/ AppendAgain
    \/ SerializeDecoded
    \/ ParseSerialized
    \/ PublicParse
    \/ Decode
    \/ DecodeDefault
    \/ ComponentsOfDecoded

SpecCodec == InitCodec /\ [][NextCodec]_vars

(***************************************************************************)
(* Decoding parsed nodes: the typed decoders, sequenceOf, and sequence     *)
(* with the steps of its builder.                                          *)
(***************************************************************************)
MaxKids == 2
MaxPeeks == 2

\* identifier octets of DER nodes: the universal types in both shapes,
\* context-specific tags 0 and 100
PrimitiveIdents ==
    { <<1>>, <<2>>, <<3>>, <<4>>, <<5>>, <<6>>, <<9>>, <<12>>, <<16>>, <<19>>,
      <<22>>, <<128>>, <<159, 100>> }

ConstructedIdents ==
    { <<33>>, <<34>>, <<35>>, <<36>>, <<37>>, <<38>>, <<41>>, <<44>>, <<48>>,
      <<49>>, <<51>>, <<54>>, <<160>> }

ConstructedContents == { <<>>, <<2, 1, 1>>, <<5, 0>>, <<48, 0>> }

DecodeInputs ==
    { TLV(i, c) : i \in PrimitiveIdents, c \in PrimitiveContents }
        \cup { TLV(i, c) : i \in ConstructedIdents, c \in ConstructedContents }

ImplicitIdentifiers ==
    { ASN1Identifier(0, ContextSpecific), ASN1Identifier(100, ContextSpecific),
      ID_SEQUENCE, ID_INTEGER }

TypedDecoders ==
    { ValueDecoder(c, f, defaultIdentifier(c)) :
          c \in Classes, f \in {"static", "instance"} }
        \cup { ValueDecoder(c, "withIdentifier", i) :
                   c \in Classes, i \in ImplicitIdentifiers }

SequenceIdentifiers == { ID_SEQUENCE, ID_SET, ASN1Identifier(0, ContextSpecific) }

\* form says what the builder does with the iterator: "call" calls next()
\* only, "peek" calls peek() as well
SequenceDecoders ==
    { [kind |-> "sequence", class |-> "none", form |-> "call", identifier |-> i] :
          i \in SequenceIdentifiers }
        \cup { [kind |-> "sequence", class |-> "none", form |-> "peek",
                identifier |-> ID_SEQUENCE] }

SequenceOfDecoders ==
    { [kind |-> "sequenceOf", class |-> c, form |-> "call", identifier |-> i] :
          c \in {"Integer", "Null", "Node"}, i \in SequenceIdentifiers }

\* the concatenations of up to n elements of S
RECURSIVE ConcatsUpTo(_, _)
ConcatsUpTo(S, n) ==
    IF n = 0 THEN {<<>>}
    ELSE {<<>>} \cup { e \o r : e \in S, r \in ConcatsUpTo(S, n - 1) }

Leaves == { <<2, 1, 1>>, <<5, 0>> }

\* up to MaxKids children, each a leaf or a SEQUENCE of up to MaxKids leaves
TreeContents ==
    ConcatsUpTo(Leaves \cup { TLV(<<48>>, c) : c \in ConcatsUpTo(Leaves, MaxKids) },
                MaxKids)

DeepTreeContents ==
    { <<2, 1, 1, 2, 1, 2>>,
      TLV(<<48>>, TLV(<<48>>, <<5, 0>>) \o <<5, 0>>) \o <<2, 1, 1>>,
      TLV(<<48>>, TLV(<<48>>, TLV(<<48>>, <<>>))) \o TLV(<<48>>, <<5, 0>>),
      <<5, 0>> \o TLV(<<49>>, TLV(<<48>>, <<2, 1, 1>>) \o TLV(<<48>>, <<>>)) }

TreeInputs ==
    { TLV(i, c) : i \in {<<48>>, <<49>>}, c \in TreeContents \cup DeepTreeContents }
        \cup { <<16, 0>>, <<4, 1, 0>>, <<160, 3, 2, 1, 1>> }

ListInputs ==
    { TLV(i, c) : i \in {<<48>>, <<49>>},
                  c \in ConcatsUpTo(Leaves, MaxKids) \cup DeepTreeContents }
        \cup { <<16, 0>>, <<160, 3, 2, 1, 1>> }

InitDecode ==
    /\ pc = "start"
    /\ rules = Distinguished
    /\ \/ decoder \in TypedDecoders /\ input \in DecodeInputs
       \/ decoder \in SequenceDecoders /\ input \in TreeInputs
       \/ decoder \in SequenceOfDecoders /\ input \in ListInputs
    /\ base = 0 /\ level = 0
    /\ result = NoResult /\ root = NoRoot /\ out = <<>>
    /\ obj = NoValue /\ decoded = NoDecoded /\ iter = NoIter
    /\ args = NoArgs /\ comps = NoComps /\ thrown = NoError

\* sequenceOf(decoder.identifier, node, parser)
SequenceOf ==
    /\ pc = "viewed"
    /\ root.err = NoError
    /\ decoder.kind = "sequenceOf"
    /\ decoded' = sequenceOf(decoder.identifier, root.nodes, root.node,
                             decoder.class)
    /\ pc' = "decoded"
    /\ UNCHANGED <<input, rules, base, level, result, root, out, obj,
                   decoder, iter, args, comps, thrown>>

\* sequence(node, decoder.identifier, builder) up to the call of the builder
\* (lines 69-80)
SequenceBegin ==
    /\ pc = "viewed"
    /\ root.err = NoError
    /\ decoder.kind = "sequence"
    /\ LET e == ConstructedWithIdentifier(root.node, decoder.identifier)
       IN  IF e # NoError
           THEN /\ decoded' = Thrown(e)
                /\ pc' = "decoded"
                /\ UNCHANGED iter
           ELSE /\ iter' = [node |-> root.node,
                            it |-> ASN1NodeCollectionIterator(root.node.coll),
                            yielded |-> <<>>, peeks |-> <<>>, done |-> FALSE]
                /\ pc' = "building"
                /\ UNCHANGED decoded
    /\ UNCHANGED <<input, rules, base, level, result, root, out, obj, decoder,
                   args, comps, thrown>>

\* the builder calls iter.peek(); peeks keeps what the calls since the last
\* node given by next() returned
BuilderPeek ==
    /\ pc = "building"
    /\ decoder.form = "peek"
    /\ Len(iter.peeks) < MaxPeeks
    /\ iter' = [iter EXCEPT
                    !.it = IterAfterPeek(root.nodes, iter.it),
                    !.peeks = Append(@, IterPeek(root.nodes, iter.it))]
    /\ UNCHANGED <<pc, input, rules, base, level, result, root, out, obj,
                   decoder, decoded, args, comps, thrown>>

\* the builder calls iter.next(); yielded keeps what next() returned, with
\* the cursor it was returned at and the peeks made before it; done says
\* that next() has reported the end
BuilderNext ==
    /\ pc = "building"
    /\ LET n == IterNext(root.nodes, iter.it)
       IN  iter' = [iter EXCEPT
                       !.it = n.it,
                       !.done = n.done,
                       !.peeks = IF n.done THEN @ ELSE <<>>,
                       !.yielded = IF n.done THEN @
                                   ELSE Append(@, [index |-> iter.it.current,
                                                   view |-> n.value,
                                                   peeks |-> iter.peeks])]
    /\ UNCHANGED <<pc, input, rules, base, level, result, root, out, obj,
                   decoder, decoded, args, comps, thrown>>

\* the builder passes the child it was given last to sequence, with the same
\* identifier
EnterChild ==
    /\ pc = "building"
    /\ Len(iter.yielded) > 0
    /\ iter.yielded[Len(iter.yielded)].view.constructed
    /\ root' = [root EXCEPT !.node = iter.yielded[Len(iter.yielded)].view]
    /\ iter' = NoIter
    /\ pc' = "viewed"
    /\ UNCHANGED <<input, rules, base, level, result, out, obj, decoder,
                   decoded, args, comps, thrown>>

\* the views the builder was given, which it returns
BuilderResult(it) == ResultList([j \in 1..Len(it.yielded) |-> it.yielded[j].view])

\* the builder returns and sequence finishes (lines 82-86)
BuilderReturn ==
    /\ pc = "building"
    /\ decoded' = SequenceEnd(root.nodes, iter.it, BuilderResult(iter))
    /\ pc' = "decoded"
    /\ UNCHANGED <<input, rules, base, level, result, root, out, obj,
                   decoder, iter, args, comps, thrown>>

NextDecode ==
    \/ PublicParse
    \/ Decode
    \/ SequenceOf
    \/ SequenceBegin
    \/ BuilderPeek
    \/ BuilderNext
    \/ EnterChild
    \/ BuilderReturn

SpecDecode == InitDecode /\ [][NextDecode]_vars

(***************************************************************************)
(* The anatomy of the first TLV of a byte string d, read off the bytes as  *)
(* X.690 lays them out.  The properties below are stated with it.          *)
(***************************************************************************)
MinOf(S) == CHOOSE x \in S : \A y \in S : x <= y

\* big-endian value of d[from..to]
RECURSIVE BigEndian(_, _, _, _)
BigEndian(d, from, to, radix) ==
    IF from > to THEN 0
    ELSE BigEndian(d, from, to - 1, radix) * radix + (d[to] % radix)

LongFormId(d) == Len(d) >= 1 /\ d[1] % 32 = 31

\* position of the last identifier octet, 0 when the identifier is cut off
IdEnd(d) ==
    IF Len(d) = 0 THEN 0
    ELSE IF ~LongFormId(d) THEN 1
    ELSE LET S == {i \in 2..Len(d) : d[i] < 128}
         IN  IF S = {} THEN 0 ELSE MinOf(S)

TagNumberOf(d) ==
    IF LongFormId(d) THEN BigEndian(d, 2, IdEnd(d), 128) ELSE d[1] % 32

\* the identifier is complete and a long form is used for 31 and above only
IdAccepted(d) == IdEnd(d) > 0 /\ (LongFormId(d) => TagNumberOf(d) >= 31)

LenPos(d) == IdEnd(d) + 1
LenFirst(d) == d[LenPos(d)]
LongFormLen(d) == LenFirst(d) > 128
LenOctets(d) == LenFirst(d) - 128

\* the identifier is accepted and every length octet is there
LenComplete(d) ==
    /\ IdAccepted(d)
    /\ Len(d) >= LenPos(d)
    /\ LongFormLen(d) => Len(d) >= LenPos(d) + LenOctets(d)

IndefiniteLen(d) == LenFirst(d) = 128

LenValue(d) ==
    IF LongFormLen(d)
    THEN BigEndian(d, LenPos(d) + 1, LenPos(d) + LenOctets(d), 256)
    ELSE LenFirst(d)

\* a long form with a leading zero octet that could be dropped
PaddedLen(d) ==
    LongFormLen(d) /\ LenOctets(d) > 1 /\ d[LenPos(d) + 1] = 0

\* what DER forbids in a length field
NotDERLen(d) ==
    \/ IndefiniteLen(d)
    \/ LongFormLen(d) /\ LenValue(d) < 128
    \/ PaddedLen(d)

ContentPos(d) ==
    LenPos(d) + 1 + (IF LongFormLen(d) THEN LenOctets(d) ELSE 0)

ContentOf(d) == SubSeq(d, ContentPos(d), ContentPos(d) + LenValue(d) - 1)

IsConstructedId(d) == (d[1] \div 32) % 2 = 1

\* a definite length that the rule set accepts
DefiniteLenAccepted(d, rls) ==
    /\ LenComplete(d)
    /\ ~IndefiniteLen(d)
    /\ rls = Distinguished => ~NotDERLen(d)

\* d ends inside the first TLV: before an identifier, inside a long-form tag
\* number, inside the length octets, or inside the content of a definite
\* length
EndsInsideTLV(d, rls) ==
    \/ Len(d) = 0
    \/ LongFormId(d) /\ IdEnd(d) = 0
    \/ IdAccepted(d) /\ ~LenComplete(d)
    \/ DefiniteLenAccepted(d, rls) /\ Len(d) < ContentPos(d) - 1 + LenValue(d)

\* the first TLV is a complete definite-length constructed node
CompleteConstructed(d, rls) ==
    /\ DefiniteLenAccepted(d, rls)
    /\ IsConstructedId(d)
    /\ Len(d) >= ContentPos(d) - 1 + LenValue(d)

(***************************************************************************)
(* Properties of the parser and of the round trip through writeNode.       *)
(***************************************************************************)

\* C1: for every byte string that parse accepts, writeNode of the parsed
\* tree on a fresh Serializer gives back the byte string.
C1_RoundTrip == pc = "written" => out = input

\* C3: under Distinguished rules, with the length octets fully present, the
\* indefinite form, a long form below 128 and a long form with more octets
\* than needed fail with UnsupportedFieldLength; a minimal long form of 128
\* or more on a primitive node with exactly that much content is accepted.
C3_DERLength ==
    (pc = "parsed" /\ rules = Distinguished /\ LenComplete(input)) =>
        /\ NotDERLen(input) => result.err = UnsupportedFieldLength
        /\ ( /\ LongFormLen(input) /\ ~NotDERLen(input)
             /\ ~IsConstructedId(input)
             /\ Len(input) = ContentPos(input) - 1 + LenValue(input) )
           => /\ result.err = NoError
              /\ Len(result.nodes) = 1
              /\ result.nodes[1].dataBytes = ContentOf(input)
              /\ Len(result.nodes[1].dataBytes) >= 128

C3_Witness ==
    /\ pc = "parsed" /\ rules = Distinguished
    /\ input = <<4, 129, 200>> \o Fill(200, 65)
    /\ result.err = NoError
    /\ Len(result.nodes[1].dataBytes) = 200

\* where a complete first TLV of d can end: where a definite length says,
\* after any 00 00 for an indefinite length
FirstTLVEnds(d, rls) ==
    IF ~LenComplete(d) THEN {}
    ELSE IF IndefiniteLen(d)
    THEN {k \in (ContentPos(d) + 1)..Len(d) : d[k - 1] = 0 /\ d[k] = 0}
    ELSE {ContentPos(d) - 1 + LenValue(d)}

\* C4: parse returns a tree only if the first top-level TLV is the whole
\* input; when the first top-level TLV parses and at least one byte is left
\* after it, the input fails with InvalidASN1Object and no tree is returned.
C4_WholeInput ==
    pc = "parsed" =>
        /\ result.err = NoError =>
              /\ Len(result.nodes) >= 1
              /\ result.nodes[1].encodedBytes = input
        /\ (\E k \in FirstTLVEnds(input, rules) :
                /\ k < Len(input)
                /\ ParseResultParse(Take(input, k), rules).err = NoError)
           => result.err = InvalidASN1Object /\ result.nodes = <<>>

C4_Witness ==
    /\ pc = "parsed"
    /\ input = <<4, 1, 0, 5, 0>>
    /\ result.err = InvalidASN1Object

\* C5: a vector returned by the parser has no node deeper than 50 and no
\* more than 100 000 nodes; input that needs a node at depth 51 or a
\* 100 001st node fails with InvalidASN1Object whatever follows.
NodesSoFar == base + Len(result.nodes)

\* number of leading 05 00 elements of d
RECURSIVE LeadingNulls(_)
LeadingNulls(d) ==
    IF Len(d) >= 2 /\ d[1] = 5 /\ d[2] = 0 THEN 1 + LeadingNulls(Drop(d, 2))
    ELSE 0

\* nesting depth of d, a run of complete short-form TLVs
RECURSIVE NestingOf(_)
NestingOf(d) ==
    IF Len(d) < 2 \/ Len(d) < 2 + d[2] THEN 0
    ELSE LET own == 1 + (IF IsConstructedId(d)
                         THEN NestingOf(SubSeq(d, 3, 2 + d[2])) ELSE 0)
             others == NestingOf(Drop(d, 2 + d[2]))
         IN  IF own > others THEN own ELSE others

C5_Caps ==
    /\ (pc \in {"parsed", "looped"} /\ result.err = NoError) =>
          /\ \A i \in 1..Len(result.nodes) :
                result.nodes[i].depth <= MAXIMUM_NODE_DEPTH
          /\ NodesSoFar <= MAXIMUM_TOTAL_NODES
    /\ pc = "looped" =>
          /\ base + LeadingNulls(input) > MAXIMUM_TOTAL_NODES
                => result.err = InvalidASN1Object
          /\ level + NestingOf(input) > MAXIMUM_NODE_DEPTH
                => result.err = InvalidASN1Object

C5_Witness ==
    /\ pc = "looped"
    /\ level = MAXIMUM_NODE_DEPTH - 1
    /\ base = MAXIMUM_TOTAL_NODES - 2
    /\ result.err = NoError
    /\ NodesSoFar = MAXIMUM_TOTAL_NODES
    /\ \E i \in 1..Len(result.nodes) : result.nodes[i].depth = MAXIMUM_NODE_DEPTH

\* C6: the parser fails with TruncatedASN1Field when the data it reads a
\* node from -- the input, or the content of the enclosing constructed
\* node -- ends before the identifier, the long-form tag number, the length
\* octets or the content of a definite length is complete.
C6_Truncated ==
    pc = "parsed" =>
        /\ EndsInsideTLV(input, rules) => result.err = TruncatedASN1Field
        /\ ( /\ CompleteConstructed(input, rules)
             /\ LenValue(input) > 0
             /\ EndsInsideTLV(ContentOf(input), rules) )
           => result.err = TruncatedASN1Field

C6_Witness ==
    /\ pc = "parsed"
    /\ input = <<48, 2, 4, 1>>
    /\ result.err = TruncatedASN1Field

\* C7: an identifier in long form is rejected when its tag number is below
\* 31 and when its first continuation octet is 0x80.
C7_MinimalTag ==
    (pc = "parsed" /\ LongFormId(input) /\ Len(input) >= 2) =>
        /\ (IdEnd(input) > 0 /\ TagNumberOf(input) < 31)
              => result.err = InvalidASN1Object
        /\ input[2] = 128 => result.err # NoError

(***************************************************************************)
(* Properties of the value types and of the helpers.                       *)
(***************************************************************************)

\* C2: for every integer v, decoding with ASN1Integer.fromDERNode the parse
\* of what new ASN1Integer(v).serialize emits succeeds and returns v; 127 is
\* emitted as 02 01 7F and -128 as 02 01 80.
C2_IntegerRoundTrip ==
    (obj.type = "ASN1Integer" /\ decoder.form = "static") =>
        /\ pc \in {"serialized", "viewed", "decoded"} =>
              /\ obj.int = 127 => out = <<2, 1, 127>>
              /\ obj.int = -128 => out = <<2, 1, 128>>
        /\ pc = "viewed" => root.err = NoError
        /\ pc = "decoded" => decoded = Returned(obj)

C2_Witness ==
    /\ pc = "decoded"
    /\ obj = ASN1Integer(-128)
    /\ out = <<2, 1, 128>>
    /\ decoded = Returned(ASN1Integer(-128))

\* the identifier a decoder is to expect: the one it is called with, or the
\* default identifier of its class
ExpectedIdentifier(dec) ==
    IF dec.kind = "value" /\ dec.form # "withIdentifier"
    THEN defaultIdentifier(dec.class)
    ELSE dec.identifier

\* the identifier octets of d say tag number and class of id
IdentifierIs(d, id) ==
    /\ TagNumberOf(d) = id.tagNumber
    /\ d[1] \div 64 = id.tagClass

\* the node of encoding d is not what the decoder takes: another
\* identifier, or the other shape
Mismatch(dec, d) ==
    \/ ~IdentifierIs(d, ExpectedIdentifier(dec))
    \/ IsConstructedId(d) # (dec.kind # "value")

\* C8: a typed decoder, sequence or sequenceOf called on a node whose
\* identifier differs from the expected one, or whose shape is not the
\* required one, fails with UnexpectedFieldType and returns no value.
C8_Mismatch ==
    ( /\ pc \in {"building", "decoded"}
      /\ decoder.kind \in {"value", "sequence", "sequenceOf"}
      /\ Mismatch(decoder, root.node.encodedBytes) )
    => pc = "decoded" /\ decoded = Thrown(UnexpectedFieldType)

\* The same for the decoders called on their class (Class.fromDERNode,
\* Class.fromDERNodeWithIdentifier) and for the two helpers.
C8_MismatchOnClass ==
    ( /\ pc \in {"building", "decoded"}
      /\ decoder.kind \in {"value", "sequence", "sequenceOf"}
      /\ decoder.form # "instance"
      /\ Mismatch(decoder, root.node.encodedBytes) )
    => pc = "decoded" /\ decoded = Thrown(UnexpectedFieldType)

\* number of TLVs that d is made of
RECURSIVE TLVCount(_)
TLVCount(d) ==
    IF Len(d) = 0 THEN 0
    ELSE 1 + TLVCount(Drop(d, ContentPos(d) - 1 + LenValue(d)))

\* number of direct children of the node of encoding d
ChildCount(d) == TLVCount(ContentOf(d))

\* C9: sequence returns what the builder returned only if the builder has
\* consumed every direct child; with a child left in the iterator when the
\* builder returns, sequence fails with InvalidASN1Object.
C9_AllConsumed ==
    (pc = "decoded" /\ decoder.kind = "sequence" /\ iter.node # NullNode) =>
        LET children == ChildCount(iter.node.encodedBytes)
            consumed == Len(iter.yielded)
        IN  /\ decoded.err = NoError =>
                  consumed = children /\ decoded.value = BuilderResult(iter)
            /\ consumed < children => decoded = Thrown(InvalidASN1Object)

C9_Witness ==
    /\ pc = "decoded"
    /\ decoder.kind = "sequence"
    /\ input = <<48, 5, 2, 1, 1, 5, 0>>
    /\ Len(iter.yielded) = 1
    /\ decoded = Thrown(InvalidASN1Object)

\* the indices in [i, end) of the nodes of the given depth, ascending
RECURSIVE IndicesAtDepth(_, _, _, _)
IndicesAtDepth(nodes, i, end, depth) ==
    IF i >= end THEN <<>>
    ELSE (IF nodes[i + 1].depth = depth THEN <<i>> ELSE <<>>)
             \o IndicesAtDepth(nodes, i + 1, end, depth)

RECURSIVE SumOf(_)
SumOf(s) == IF Len(s) = 0 THEN 0 ELSE s[1] + SumOf(Drop(s, 1))

\* C10: the iterator of a constructed node's collection yields the nodes of
\* [start, end) whose depth is the parent's depth + 1, in vector order, each
\* once and no other; the subtree spans of the yielded children are disjoint
\* and their sizes add up to end - start.
C10_DirectChildren ==
    pc = "building" =>
        LET nodes == root.nodes
            coll == iter.node.coll
            direct == IndicesAtDepth(nodes, coll.start, coll.end, coll.depth + 1)
            ys == iter.yielded
            spanEnd == [j \in 1..Len(ys) |->
                           subtreeEndIndex(nodes, ASN1NodeCollectionIterator(coll),
                                           ys[j].index)]
        IN  /\ Len(ys) <= Len(direct)
            /\ \A j \in 1..Len(ys) :
                  /\ ys[j].index = direct[j]
                  /\ ys[j].view.identifier = nodes[direct[j] + 1].identifier
                  /\ ys[j].view.encodedBytes = nodes[direct[j] + 1].encodedBytes
                  /\ ys[j].view.constructed = nodes[direct[j] + 1].isConstructed
            /\ iter.it.current >= coll.end =>
                  /\ Len(ys) = Len(direct)
                  /\ \A j \in 1..Len(ys) : spanEnd[j] > ys[j].index
                  /\ \A j \in 1..(Len(ys) - 1) : spanEnd[j] <= ys[j + 1].index
                  /\ SumOf([j \in 1..Len(ys) |-> spanEnd[j] - ys[j].index])
                         = coll.end - coll.start

C10_Witness ==
    /\ pc = "building"
    /\ iter.it.current >= iter.node.coll.end
    /\ Len(iter.yielded) = 2
    /\ iter.node.coll.end - iter.node.coll.start = 5
    /\ iter.yielded[2].index - iter.yielded[1].index = 3

\* the k-th of the TLVs that d is made of
RECURSIVE NthTLV(_, _)
NthTLV(d, k) ==
    LET n == ContentPos(d) - 1 + LenValue(d)
    IN  IF k = 1 THEN Take(d, n) ELSE NthTLV(Drop(d, n), k - 1)

\* two views show the same node: identifier, shape, content, encoding and
\* number of descendants
SameView(a, b) ==
    /\ a.identifier = b.identifier
    /\ a.constructed = b.constructed
    /\ a.value = b.value
    /\ a.encodedBytes = b.encodedBytes
    /\ a.coll.end - a.coll.start = b.coll.end - b.coll.start

\* C11: sequenceOf(id, node, parser) returns a list with one entry per
\* direct child of node, in child order, entry k being parser applied to the
\* k-th child; grandchildren are never passed to parser.
C11_OnePerChild ==
    ( /\ pc = "decoded" /\ decoder.kind = "sequenceOf"
      /\ ~Mismatch(decoder, root.node.encodedBytes) )
    => LET d == root.node.encodedBytes
           n == ChildCount(d)
           want == [k \in 1..n |->
                       ApplyParser(decoder.class,
                                   DerParse(NthTLV(ContentOf(d), k)).node)]
       IN  /\ (\A k \in 1..n : want[k].err = NoError) => decoded.err = NoError
           /\ decoded.err = NoError =>
                 /\ decoded.value.type = "Array"
                 /\ Len(decoded.value.items) = n
                 /\ \A k \in 1..n :
                       /\ want[k].err = NoError
                       /\ IF decoder.class = "Node"
                          THEN SameView(decoded.value.items[k], want[k].value)
                          ELSE decoded.value.items[k] = want[k].value

C11_Witness ==
    /\ pc = "decoded"
    /\ decoder.kind = "sequenceOf" /\ decoder.class = "Integer"
    /\ input = <<48, 6, 2, 1, 1, 2, 1, 2>>
    /\ decoded = Returned(ResultList(<<ASN1Integer(1), ASN1Integer(2)>>))

\* C12: peek() leaves the iterator's cursor unchanged: any number of peek()
\* calls return views of the same node that the following next() returns,
\* and peek() returns null exactly when next() would report done.
C12_PeekKeepsCursor ==
    (pc \in {"building", "decoded"} /\ iter.node # NullNode) =>
        /\ \A j \in 1..Len(iter.yielded) :
              \A k \in 1..Len(iter.yielded[j].peeks) :
                  /\ iter.yielded[j].peeks[k] # NullNode
                  /\ iter.yielded[j].peeks[k] = iter.yielded[j].view
        /\ \A k \in 1..Len(iter.peeks) :
              /\ iter.peeks[k] = iter.peeks[1]
              /\ iter.done => iter.peeks[k] = NullNode
              /\ (iter.peeks[k] = NullNode)
                    = IterNext(root.nodes, iter.it).done

C12_Witness ==
    /\ pc = "building"
    /\ input = <<48, 2, 5, 0>>
    /\ Len(iter.yielded) = 1
    /\ Len(iter.yielded[1].peeks) = 2
    /\ iter.yielded[1].peeks[2] = iter.yielded[1].view
    /\ iter.done
    /\ iter.peeks = <<NullNode>>

(***************************************************************************)
(* Properties of what the Serializer emits.                                *)
(***************************************************************************)
Emitted == obj.type = "Writer" /\ pc \in {"serialized", "viewed"}

\* the first octet of an identifier: class in bits 7-6, 0x20 iff
\* constructed, low in bits 4-0
FirstIdOctet(low) ==
    obj.identifier.tagClass * 64 + (IF obj.constructed THEN 32 ELSE 0) + low

\* C13: a tag number below 31 is emitted as one octet holding class,
\* constructed bit and tag number; a tag number of 31 or more as
\* class|0x1F|constructed bit followed by the base-128 big-endian groups of
\* the number, the high bit set on all but the last, no leading zero group
\* (ContextSpecific 100 primitive starts 9F 64); parse of the emitted bytes
\* returns the same tag number, class and constructed flag.
C13_IdentifierEmitted ==
    Emitted =>
        /\ obj.identifier.tagNumber < 31 =>
              /\ out[1] = FirstIdOctet(obj.identifier.tagNumber)
              /\ IdEnd(out) = 1
        /\ obj.identifier.tagNumber >= 31 =>
              /\ out[1] = FirstIdOctet(31)
              /\ IdEnd(out) >= 2
              /\ \A i \in 2..(IdEnd(out) - 1) : out[i] >= 128
              /\ out[IdEnd(out)] < 128
              /\ out[2] # 128
              /\ BigEndian(out, 2, IdEnd(out), 128) = obj.identifier.tagNumber
        /\ (obj.identifier = ASN1Identifier(100, ContextSpecific)
               /\ ~obj.constructed) => SubSeq(out, 1, 2) = <<159, 100>>
        /\ pc = "viewed" =>
              /\ root.err = NoError
              /\ root.node.identifier = obj.identifier
              /\ root.node.constructed = obj.constructed

C13_Witness ==
    /\ pc = "viewed"
    /\ obj = Writer(ASN1Identifier(100, ContextSpecific), FALSE, <<97>>)
    /\ out = <<159, 100, 1, 97>>
    /\ root.err = NoError
    /\ root.node.identifier = ASN1Identifier(100, ContextSpecific)
    /\ ~root.node.constructed

C13_WitnessGroups ==
    /\ pc = "viewed"
    /\ obj = Writer(ASN1Identifier(16384, Private), TRUE, <<>>)
    /\ out = <<255, 129, 128, 0, 2, 4, 0>>
    /\ root.node.identifier = ASN1Identifier(16384, Private)

\* the content handed to appendNode
ContentEmitted ==
    IF obj.constructed
    THEN appendPrimitiveNode(<<>>, ID_OCTET_STRING, obj.payload)
    ELSE obj.payload

\* C14: a content length n <= 127 is emitted as the single octet n; a larger
\* one as 0x80|k followed by the k octets of n, big-endian, the first of
\* them not zero; 0x80 alone is never emitted; the parser under the
\* Distinguished rules accepts the length.
C14_LengthEmitted ==
    Emitted =>
        LET n == Len(ContentEmitted)
            p == LenPos(out)
            k == out[p] - 128
        IN  /\ n <= 127 => (out[p] = n /\ Len(out) = p + n)
            /\ n > 127 =>
                  /\ k >= 1
                  /\ Len(out) = p + k + n
                  /\ BigEndian(out, p + 1, p + k, 256) = n
                  /\ out[p + 1] # 0
            /\ out[p] # 128
            /\ ~NotDERLen(out)
            /\ SubSeq(out, Len(out) - n + 1, Len(out)) = ContentEmitted
            /\ pc = "viewed" =>
                  /\ root.err = NoError
                  /\ ~obj.constructed => root.node.value = obj.payload

C14_Witness ==
    /\ pc = "viewed"
    /\ obj = Writer(ID_OCTET_STRING, FALSE, Fill(256, 97))
    /\ SubSeq(out, 1, 4) = <<4, 130, 1, 0>>
    /\ Len(out) = 260
    /\ root.err = NoError
    /\ root.node.value = Fill(256, 97)

C14_WitnessShort ==
    /\ pc = "viewed"
    /\ obj = Writer(ID_OCTET_STRING, FALSE, Fill(127, 97))
    /\ SubSeq(out, 1, 2) = <<4, 127>>
    /\ root.err = NoError

C14_WitnessThreeOctets ==
    /\ pc = "viewed"
    /\ obj = Writer(ID_OCTET_STRING, FALSE, Fill(MaxContent, 97))
    /\ SubSeq(out, 1, 5) = <<4, 131, 1, 0, 0>>
    /\ root.err = NoError

(***************************************************************************)
(* Properties of the decoders of the value types.                          *)
(***************************************************************************)
\* the decoder of class has decoded a primitive node that carries the
\* default identifier of the class, which is the identifier it expects
DecodedPrimitive(class) ==
    /\ pc = "decoded"
    /\ decoder.kind = "value"
    /\ decoder.class = class
    /\ decoder.identifier = defaultIdentifier(class)
    /\ root.node.identifier = defaultIdentifier(class)
    /\ ~root.node.constructed

\* the two's-complement big-endian value of c
TwosComplement(c) ==
    BigEndian(c, 1, Len(c), 256)
        - (IF c[1] >= 128 THEN Pow(256, Len(c)) ELSE 0)

\* C15: decoding a primitive INTEGER node fails with
\* InvalidASN1IntegerEncoding when the content has more than one byte and
\* starts 00 and a byte below 0x80, or FF and a byte of 0x80 or above
\* (02 02 00 7F); fails with InvalidASN1Object on empty content; otherwise
\* returns the two's-complement big-endian value of the content.
C15_IntegerDecode ==
    DecodedPrimitive("Integer") =>
        LET c == root.node.value
            redundant ==
                /\ Len(c) > 1
                /\ \/ c[1] = 0 /\ c[2] < 128
                   \/ c[1] = 255 /\ c[2] >= 128
        IN  /\ input = <<2, Len(c)>> \o c
            /\ redundant => decoded = Thrown(InvalidASN1IntegerEncoding)
            /\ Len(c) = 0 => decoded = Thrown(InvalidASN1Object)
            /\ (~redundant /\ Len(c) > 0)
                  => decoded = Returned(ASN1Integer(TwosComplement(c)))

C15_Witness ==
    /\ DecodedPrimitive("Integer")
    /\ input = <<2, 2, 0, 127>>
    /\ decoded = Thrown(InvalidASN1IntegerEncoding)

C15_WitnessValue ==
    /\ DecodedPrimitive("Integer")
    /\ input = <<2, 2, 255, 127>>
    /\ decoded = Returned(ASN1Integer(-129))

C15_WitnessEmpty ==
    /\ DecodedPrimitive("Integer")
    /\ input = <<2, 0>>
    /\ decoded = Thrown(InvalidASN1Object)

\* C16: decoding a primitive BOOLEAN node returns false for the content 00
\* and true for the content FF, and fails with InvalidASN1Object for every
\* other single byte (01 01 01) and every content whose length is not 1;
\* encoding emits 01 01 FF for true and 01 01 00 for false, and decoding
\* the parse of what was emitted returns the value.
C16_Boolean ==
    /\ DecodedPrimitive("Boolean") =>
          LET c == root.node.value
          IN  /\ c = <<0>> => decoded = Returned(ASN1Boolean(FALSE))
              /\ c = <<255>> => decoded = Returned(ASN1Boolean(TRUE))
              /\ c \notin {<<0>>, <<255>>} => decoded = Thrown(InvalidASN1Object)
    /\ obj.type = "ASN1Boolean" =>
          /\ pc \in {"serialized", "viewed", "decoded"} =>
                out = (IF obj.bool THEN <<1, 1, 255>> ELSE <<1, 1, 0>>)
          /\ pc = "viewed" => root.err = NoError
          /\ pc = "decoded" => decoded = Returned(obj)

C16_Witness ==
    /\ DecodedPrimitive("Boolean")
    /\ input = <<1, 1, 1>>
    /\ decoded = Thrown(InvalidASN1Object)

C16_WitnessLength ==
    /\ DecodedPrimitive("Boolean")
    /\ input = <<1, 2, 0, 255>> \/ input = <<1, 0>>
    /\ decoded = Thrown(InvalidASN1Object)

C16_WitnessRoundTrip ==
    /\ pc = "decoded"
    /\ obj = ASN1Boolean(TRUE)
    /\ out = <<1, 1, 255>>
    /\ decoded = Returned(ASN1Boolean(TRUE))

\* bit i of byte b, bit 0 the lowest
Bit(b, i) == (b \div Pow(2, i)) % 2

\* C17: decoding a primitive BIT STRING node fails when the content is
\* empty, when its first byte (the padding bits) is above 7, when the data
\* after it is empty and the padding bits are not 0, and when the data is
\* not empty and one of the low padding-bits bits of its last byte is 1
\* (03 02 03 A1); otherwise it returns the data and the padding bits
\* unchanged (03 02 03 A0 gives A0 and 3).
C17_BitStringDecode ==
    DecodedPrimitive("BitString") =>
        LET c == root.node.value
            padding == c[1]
            data == SubSeq(c, 2, Len(c))
            rejected ==
                \/ Len(c) = 0
                \/ padding > 7
                \/ Len(data) = 0 /\ padding # 0
                \/ /\ Len(data) > 0
                   /\ \E i \in 0..(padding - 1) : Bit(data[Len(data)], i) = 1
        IN  /\ rejected => decoded.err # NoError
            /\ ~rejected => decoded = Returned(ASN1BitString(data, padding))
            /\ input = <<3, 2, 3, 161>> => decoded.err # NoError
            /\ input = <<3, 2, 3, 160>>
                  => decoded = Returned(ASN1BitString(<<160>>, 3))

C17_Witness ==
    /\ DecodedPrimitive("BitString")
    /\ input = <<3, 2, 3, 161>>
    /\ decoded = Thrown(InvalidASN1Object)

C17_WitnessAccepted ==
    /\ DecodedPrimitive("BitString")
    /\ input = <<3, 2, 3, 160>>
    /\ decoded = Returned(ASN1BitString(<<160>>, 3))

C17_WitnessPadding ==
    /\ DecodedPrimitive("BitString")
    /\ input \in {<<3, 2, 8, 0>>, <<3, 1, 7>>, <<3, 0>>}
    /\ decoded = Thrown(InvalidASN1Object)

(***************************************************************************)
(* Round trips of the value types.                                         *)
(***************************************************************************)
\* C18: for every ASN1BitString that the constructor accepts, decoding the
\* parse of its serialization succeeds and returns the same data bytes and
\* padding bits.
C18_BitStringRoundTrip ==
    (obj.type = "ASN1BitString"
         /\ BitStringAccepted(obj.bits, obj.paddingBits)) =>
        /\ pc = "viewed" => root.err = NoError
        /\ pc = "decoded" => decoded = Returned(obj)

\* the unused bits of the last data byte are zero
UnusedBitsZero(self) ==
    Len(self.bits) > 0 =>
        \A i \in 0..(self.paddingBits - 1) : Bit(self.bits[Len(self.bits)], i) = 0

\* The round trip of the values whose unused bits are zero.
C18_RoundTripOfZeroUnused ==
    (obj.type = "ASN1BitString" /\ UnusedBitsZero(obj)) =>
        /\ pc = "viewed" => root.err = NoError
        /\ pc = "decoded" => decoded = Returned(obj)

\* The value with data A1 and 3 padding bits is serialized as 03 02 03 A1,
\* which the decoder rejects.
C18_UnusedBitsLost ==
    /\ pc = "decoded"
    /\ obj = ASN1BitString(<<161>>, 3)
    /\ out = <<3, 2, 3, 161>>
    /\ decoded = Thrown(InvalidASN1Object)

\* the components were read from the object that fromComponents made of
\* args, directly or after serialize, parse and fromDERNode
ComponentsRead == pc = "read" /\ comps.from \in {"object", "decoded"}

\* fromComponents returned an object for args
Accepted == args.type = "Array" /\ fromComponents(args.items).err = NoError

\* C19: for every component list that fromComponents accepts, the
\* components read back from the OID, directly or after serialize, parse
\* and fromDERNode, are the list ([1, 2, 840, 113549] and
\* 06 06 2A 86 48 86 F7 0D).
C19_ComponentsRoundTrip ==
    Accepted =>
        /\ pc = "viewed" => root.err = NoError
        /\ pc = "decoded" => decoded.err = NoError
        /\ ComponentsRead =>
              (comps.err = NoError /\ comps.items = args.items)
        /\ (args.items = <<1, 2, 840, 113549>> /\ pc = "serialized")
              => out = <<6, 6, 42, 134, 72, 134, 247, 13>>

NonNegative(list) == \A i \in 1..Len(list) : list[i] >= 0

\* The same for the lists without a negative component.
C19_RoundTripOfNonNegative ==
    (Accepted /\ NonNegative(args.items)) =>
        /\ pc = "viewed" => root.err = NoError
        /\ pc = "decoded" => decoded.err = NoError
        /\ ComponentsRead =>
              (comps.err = NoError /\ comps.items = args.items)

\* The same for the lists without a negative component whose second
\* component is at most 39.
C19_RoundTripBelow40 ==
    (Accepted /\ NonNegative(args.items) /\ args.items[2] <= 39) =>
        /\ pc = "viewed" => root.err = NoError
        /\ pc = "decoded" => decoded.err = NoError
        /\ ComponentsRead =>
              (comps.err = NoError /\ comps.items = args.items)

\* [2, 40] is accepted and encoded as 06 01 78; its components are read
\* back as [3, 0].
C19_WrongPair ==
    /\ Accepted
    /\ ComponentsRead
    /\ comps.from = "decoded"
    /\ args.items = <<2, 40>>
    /\ out = <<6, 1, 120>>
    /\ comps.items = <<3, 0>>

C19_TestRoundTrip ==
    /\ Accepted
    /\ ComponentsRead
    /\ comps.from = "decoded"
    /\ args.items = <<1, 2, 840, 113549>>
    /\ out = <<6, 6, 42, 134, 72, 134, 247, 13>>
    /\ comps.items = args.items

(***************************************************************************)
(* Properties of ASN1ObjectIdentifier.fromComponents.                      *)
(***************************************************************************)
\* fromComponents was called on args
Constructed == args.type = "Array" /\ pc # "args"

\* the least k with x < 128^k
RECURSIVE GroupCount(_)
GroupCount(x) == IF x < 128 THEN 1 ELSE 1 + GroupCount(x \div 128)

\* x in base-128 groups, big-endian, the high bit set on all but the last,
\* as few groups as hold x
MinimalBase128(x) ==
    LET k == GroupCount(x)
    IN  [i \in 1..k |->
            ((x \div Pow(128, k - i)) % 128) + (IF i < k THEN 128 ELSE 0)]

RECURSIVE RemainingEncoded(_, _)
RemainingEncoded(list, i) ==
    IF i > Len(list) THEN <<>>
    ELSE MinimalBase128(list[i]) \o RemainingEncoded(list, i + 1)

\* what the validity constraints say of a list, and what is encoded
FromComponentsOutcome(list) ==
    IF Len(list) < 2
    THEN /\ pc = "failed"
         /\ comps = [from |-> "fromComponents", err |-> TooFewOIDComponents,
                     items |-> <<>>]
    ELSE IF list[1] \notin {0, 1, 2} \/ (list[1] \in {0, 1} /\ list[2] > 39)
    THEN /\ pc = "failed"
         /\ comps = [from |-> "fromComponents", err |-> InvalidASN1Object,
                     items |-> <<>>]
    ELSE /\ pc # "failed"
         /\ obj = ASN1ObjectIdentifier(
                      MinimalBase128(40 * list[1] + list[2])
                          \o RemainingEncoded(list, 3))

\* C20: fromComponents fails with TooFewOIDComponents on fewer than two
\* components, fails with InvalidASN1Object when the first component is not
\* 0, 1 or 2 or when it is 0 or 1 and the second is above 39, and otherwise
\* encodes 40*c0 + c1 and then each remaining component in minimal base-128
\* form.
C20_FromComponents ==
    Constructed => FromComponentsOutcome(args.items)

\* The same for the lists without a negative component.
C20_FromNonNegative ==
    (Constructed /\ NonNegative(args.items))
        => FromComponentsOutcome(args.items)

\* [-1, 0] is accepted: the object holds no bytes.
C20_NegativeAccepted ==
    /\ Constructed
    /\ args.items = <<-1, 0>>
    /\ pc = "new"
    /\ obj = ASN1ObjectIdentifier(<<>>)

C20_TooFew ==
    /\ Constructed
    /\ Len(args.items) = 1
    /\ comps.err = TooFewOIDComponents

C20_SecondAbove39 ==
    /\ Constructed
    /\ args.items = <<1, 40>>
    /\ comps.err = InvalidASN1Object

C20_Encoded ==
    /\ Constructed
    /\ args.items = <<2, 47, 128>>
    /\ pc = "new"
    /\ obj = ASN1ObjectIdentifier(<<127, 129, 0>>)

(***************************************************************************)
(* Properties of the OBJECT IDENTIFIER decoder.                            *)
(***************************************************************************)
\* a base-128 group of c starts at position i
GroupStart(c, i) == i = 1 \/ c[i - 1] < 128

\* C21: decoding a primitive OBJECT IDENTIFIER node fails when the content
\* is empty, when any base-128 group of it, the first or a later one,
\* starts with the byte 0x80, and when the content ends inside a group;
\* every other content is accepted whatever its first sub-identifier is.
C21_EverySubidentifier ==
    DecodedPrimitive("ObjectIdentifier") =>
        LET c == root.node.value
            malformed ==
                \/ Len(c) = 0
                \/ \E i \in 1..Len(c) : GroupStart(c, i) /\ c[i] = 128
                \/ c[Len(c)] >= 128
        IN  /\ malformed => decoded.err # NoError
            /\ ~malformed => decoded = Returned(ASN1ObjectIdentifier(c))

C21_Witness ==
    /\ DecodedPrimitive("ObjectIdentifier")
    /\ input = <<6, 3, 42, 128, 1>>
    /\ decoded = Thrown(InvalidASN1Object)

C21_WitnessTruncated ==
    /\ DecodedPrimitive("ObjectIdentifier")
    /\ input = <<6, 2, 42, 134>>
    /\ decoded = Thrown(TruncatedASN1Field)

C21_WitnessFirstAbove39 ==
    /\ DecodedPrimitive("ObjectIdentifier")
    /\ input = <<6, 1, 127>>
    /\ decoded = Returned(ASN1ObjectIdentifier(<<127>>))

(***************************************************************************)
(* Properties of ASN1Real.                                                 *)
(***************************************************************************)
\* serialize was called on the ASN1Real obj
RealSerialized == obj.type = "ASN1Real" /\ pc # "new"

\* C22: serializing an ASN1Real whose value is NaN fails with
\* InvalidASN1Object and emits no bytes; NaN is never encoded as 0x40 or
\* 0x41.
C22_NaNRejected ==
    (RealSerialized /\ DoubleIsNaN(obj.real.ieee)) =>
        /\ pc = "failed"
        /\ thrown = InvalidASN1Object
        /\ out = <<>>

\* NaN is serialized as 09 01 41, which decodes as -Infinity.
C22_NaNAsMinusInfinity ==
    /\ pc = "decoded"
    /\ obj = ASN1Real(RealDouble(<<127, 248, 0, 0, 0, 0, 0, 0>>))
    /\ thrown = NoError
    /\ out = <<9, 1, 65>>
    /\ decoded = Returned(ASN1Real(RealInfinity(-1)))

\* 2 * d, for a bigint d
DoubleBig(d) ==
    LET low == [i \in 1..Len(d) |->
                   ((d[i] * 2) % 256)
                       + (IF i < Len(d) THEN d[i + 1] \div 128 ELSE 0)]
    IN  IF Len(d) > 0 /\ d[1] >= 128 THEN <<1>> \o low ELSE low

\* d * 2^k
RECURSIVE TimesPow2(_, _)
TimesPow2(d, k) == IF k = 0 THEN d ELSE TimesPow2(DoubleBig(d), k - 1)

\* A finite double is (-1)^sign * Significand * 2^LeastExponent: the
\* fraction, with the implicit bit of a normal number, and the exponent of
\* its lowest bit.
Significand(ieee) ==
    BigUint(IF BiasedExponent(ieee) = 0 THEN Fraction(ieee)
            ELSE [Fraction(ieee) EXCEPT ![1] = @ + 16])

LeastExponent(ieee) ==
    (IF BiasedExponent(ieee) = 0 THEN 1 ELSE BiasedExponent(ieee)) - 1075

\* r, a number that the decoder returned, is the double ieee
SameReal(r, ieee) ==
    IF ~DoubleIsFinite(ieee)
    THEN r = RealInfinity(IF SignBit(ieee) THEN -1 ELSE 1)
    ELSE IF DoubleIsZero(ieee)
    THEN r = RealZero /\ ~SignBit(ieee)
    ELSE /\ r.kind = "product"
         /\ r.sign = (IF SignBit(ieee) THEN -1 ELSE 1)
         /\ r.scaleFactor = 0
         /\ r.base = 2
         /\ r.exponent >= LeastExponent(ieee)
         /\ TimesPow2(r.mantissa, r.exponent - LeastExponent(ieee))
                = Significand(ieee)

\* r holds the sign, mantissa and exponent that the writer encoded
FactorsReadBack(r, ieee) ==
    (DoubleIsFinite(ieee) /\ ~DoubleIsZero(ieee)) =>
        /\ r.kind = "product"
        /\ r.sign = (IF RealFactors(ieee).sign THEN -1 ELSE 1)
        /\ r.mantissa = BigUint(RealFactors(ieee).mantissa)
        /\ r.exponent = RealFactors(ieee).exponent

\* C23: for every finite double and for +infinity and -infinity, decoding
\* what serialize emits returns the same value: the decoder reads back the
\* sign, mantissa and exponent that the encoder wrote, with base 2 and scale
\* 0, and sign * mantissa * 2^exponent is the value.
C23_RealRoundTrip ==
    (RealSerialized /\ ~DoubleIsNaN(obj.real.ieee)) =>
        /\ pc # "failed"
        /\ pc = "viewed" => root.err = NoError
        /\ pc = "decoded" =>
              /\ decoded.err = NoError
              /\ FactorsReadBack(decoded.value.real, obj.real.ieee)
              /\ SameReal(decoded.value.real, obj.real.ieee)

MinusZero == <<128, 0, 0, 0, 0, 0, 0, 0>>

\* The same for every double but -0.
C23_RoundTripButMinusZero ==
    (RealSerialized /\ ~DoubleIsNaN(obj.real.ieee)
         /\ obj.real.ieee # MinusZero) =>
        /\ pc # "failed"
        /\ pc = "viewed" => root.err = NoError
        /\ pc = "decoded" =>
              /\ decoded.err = NoError
              /\ FactorsReadBack(decoded.value.real, obj.real.ieee)
              /\ SameReal(decoded.value.real, obj.real.ieee)

\* -0 is serialized as 09 00, which decodes as 0.
C23_MinusZeroLost ==
    /\ pc = "decoded"
    /\ obj = ASN1Real(RealDouble(MinusZero))
    /\ out = <<9, 0>>
    /\ decoded = Returned(ASN1Real(RealZero))

\* 3.14 is serialized as 09 09 80 CD 19 1E B8 51 EB 85 1F and read back.
C23_Pi ==
    /\ pc = "decoded"
    /\ obj = ASN1Real(RealDouble(<<64, 9, 30, 184, 81, 235, 133, 31>>))
    /\ out = <<9, 9, 128, 205, 25, 30, 184, 81, 235, 133, 31>>
    /\ decoded = Returned(ASN1Real(RealProduct(
                     1, <<25, 30, 184, 81, 235, 133, 31>>, 0, 2, -51)))

C23_MinusHalf ==
    /\ pc = "decoded"
    /\ obj = ASN1Real(RealDouble(<<191, 224, 0, 0, 0, 0, 0, 0>>))
    /\ out = <<9, 3, 192, 255, 1>>
    /\ decoded = Returned(ASN1Real(RealProduct(-1, <<1>>, 0, 2, -1)))

(***************************************************************************)
(* Properties of implicit tagging.                                         *)
(***************************************************************************)
\* the integer obj was serialized under the identifier of the decoder
TaggedInteger ==
    /\ obj.type = "ASN1Integer"
    /\ decoder.form = "withIdentifier"
    /\ pc # "new"

\* a node was received and decoded as an integer under the identifier [0],
\* which it carries
TaggedReceived ==
    /\ obj = NoValue
    /\ pc = "decoded"
    /\ decoder = ValueDecoder("Integer", "withIdentifier",
                              ASN1Identifier(0, ContextSpecific))
    /\ root.node.identifier = decoder.identifier
    /\ ~root.node.constructed

\* the node with the identifier INTEGER in place of its own
AsInteger(node) == [node EXCEPT !.identifier = ID_INTEGER]

\* C24: serializeWithIdentifier(out, id) of the integer v emits a primitive
\* TLV whose identifier is id and whose content is the content that
\* serialize() emits; fromDERNodeWithIdentifier(parse(bytes), id) returns v
\* and applies the content rules of fromDERNode, empty and non-minimal
\* content being rejected; fromDERNode on the node fails with
\* UnexpectedFieldType when id is not Universal INTEGER.
C24_ImplicitTag ==
    /\ TaggedInteger =>
          LET plain == serialize(<<>>, obj)
          IN  /\ pc # "failed"
              /\ SubSeq(out, IdEnd(out) + 1, Len(out)) = Tail(plain)
              /\ pc \in {"viewed", "decoded", "decodedDefault"} =>
                    /\ root.err = NoError
                    /\ root.node.identifier = decoder.identifier
                    /\ ~root.node.constructed
                    /\ root.node.value = ContentOf(plain)
              /\ pc = "decoded" => decoded = Returned(obj)
              /\ pc = "decodedDefault" =>
                    decoded = (IF decoder.identifier = ID_INTEGER
                               THEN Returned(obj)
                               ELSE Thrown(UnexpectedFieldType))
    /\ TaggedReceived =>
          /\ decoded = fromDERNode("Integer", AsInteger(root.node))
          /\ root.node.value = <<>> => decoded = Thrown(InvalidASN1Object)
          /\ root.node.value \in {<<0, 127>>, <<255, 128>>}
                => decoded = Thrown(InvalidASN1IntegerEncoding)

C24_Witness ==
    /\ TaggedInteger
    /\ pc = "decoded"
    /\ obj = ASN1Integer(-129)
    /\ decoder.identifier = ASN1Identifier(100, ContextSpecific)
    /\ out = <<159, 100, 2, 255, 127>>
    /\ decoded = Returned(ASN1Integer(-129))

C24_WitnessDefault ==
    /\ TaggedInteger
    /\ pc = "decodedDefault"
    /\ obj = ASN1Integer(128)
    /\ out = <<128, 2, 0, 128>>
    /\ decoded = Thrown(UnexpectedFieldType)

C24_WitnessRules ==
    /\ TaggedReceived
    /\ input = <<128, 2, 0, 127>>
    /\ decoded = Thrown(InvalidASN1IntegerEncoding)

(***************************************************************************)
(* Properties of the indefinite-length branch of the parser.               *)
(***************************************************************************)
\* number of nodes of the definite-length TLVs that d is made of, every
\* descendant counted
RECURSIVE TreeSize(_)
TreeSize(d) ==
    IF Len(d) = 0 THEN 0
    ELSE LET n == ContentPos(d) - 1 + LenValue(d)
         IN  1 + (IF IsConstructedId(d) THEN TreeSize(ContentOf(d)) ELSE 0)
               + TreeSize(Drop(d, n))

\* number of elements 00 00 among those nodes
RECURSIVE MarkersIn(_)
MarkersIn(d) ==
    IF Len(d) = 0 THEN 0
    ELSE LET n == ContentPos(d) - 1 + LenValue(d)
         IN  (IF Take(d, n) = <<0, 0>> THEN 1 ELSE 0)
               + (IF IsConstructedId(d) THEN MarkersIn(ContentOf(d)) ELSE 0)
               + MarkersIn(Drop(d, n))

\* number of end-of-contents nodes in a vector
RECURSIVE EndMarkersOf(_)
EndMarkersOf(nodes) ==
    IF Len(nodes) = 0 THEN 0
    ELSE (IF isEndMarker(nodes[1]) THEN 1 ELSE 0) + EndMarkersOf(Drop(nodes, 1))

\* the input is an indefinite-length node of definite-length children,
\* none of them 00 00, and the end-of-contents octets
IndefiniteOfDefinite ==
    /\ rules = Basic
    /\ pc = "parsed"
    /\ input \in EndMarkerInputs
    /\ input # <<48, 128, 48, 128, 0, 0, 0, 0>>

\* the children of such an input
ChildrenOf(d) == SubSeq(d, 3, Len(d) - 2)

\* C25: under Basic rules an indefinite-length node keeps consuming
\* children until one of its direct children is an end-of-contents node; only
\* that one is removed from the vector; an element 00 00 that is the last
\* descendant of a definite-length constructed child does not end the node
\* and stays in the vector.
C25_DirectSentinel ==
    IndefiniteOfDefinite =>
        /\ result.err = NoError
        /\ Len(result.nodes) = 1 + TreeSize(ChildrenOf(input))
        /\ result.nodes[1].encodedBytes = input
        /\ \A i \in 1..Len(result.nodes) :
              isEndMarker(result.nodes[i]) => result.nodes[i].depth > 2
        /\ EndMarkersOf(result.nodes) = MarkersIn(ChildrenOf(input))

\* The same for the inputs none of whose children ends with an element
\* 00 00.
C25_SentinelOfPlainChildren ==
    (IndefiniteOfDefinite /\ MarkersIn(ChildrenOf(input)) = 0) =>
        /\ result.err = NoError
        /\ Len(result.nodes) = 1 + TreeSize(ChildrenOf(input))
        /\ result.nodes[1].encodedBytes = input
        /\ EndMarkersOf(result.nodes) = 0

\* 30 80 30 02 00 00 00 00: the element 00 00 inside the child ends the
\* indefinite-length node, and the parse fails on the two octets left over.
C25_InnerMarkerEndsNode ==
    /\ rules = Basic
    /\ pc = "parsed"
    /\ input = <<48, 128, 48, 2, 0, 0, 0, 0>>
    /\ result.err = InvalidASN1Object

C25_DirectMarker ==
    /\ rules = Basic
    /\ pc = "parsed"
    /\ input = <<48, 128, 5, 0, 4, 2, 0, 0, 0, 0>>
    /\ result.err = NoError
    /\ Len(result.nodes) = 3

(***************************************************************************)
(* The cursor of a collection iterator.                                    *)
(***************************************************************************)
\* the first index in from..(limit - 1) whose node is no deeper than depth,
\* or otherwise when there is none
FirstNoDeeper(nodes, from, limit, depth, otherwise) ==
    LET S == { k \in from..(limit - 1) : nodes[k + 1].depth <= depth }
    IN  IF S = {} THEN otherwise ELSE MinOf(S)

\* the cursor that the j-th next() of the builder left: the index the
\* following next() returned its node at, or the iterator's cursor
CursorAfter(j) ==
    IF j < Len(iter.yielded) THEN iter.yielded[j + 1].index ELSE iter.it.current

\* the j-th next() returned the node at the cursor it was called at
ReturnedAtCursor(j) ==
    LET y == iter.yielded[j]
        node == root.nodes[y.index + 1]
    IN  /\ y.index < iter.it.end
        /\ y.view.identifier = node.identifier
        /\ y.view.encodedBytes = node.encodedBytes
        /\ y.view.constructed = node.isConstructed

\* C26 as stated: next() on an iterator with cursor < end returns the node at
\* the cursor and then sets the cursor to the first index after it whose node
\* has depth <= the depth the iterator was created with (the parent's), or to
\* end when there is no such index.
C26_CursorByParentDepth ==
    (pc = "building" /\ iter.node # NullNode) =>
        \A j \in 1..Len(iter.yielded) :
            /\ ReturnedAtCursor(j)
            /\ CursorAfter(j)
                   = FirstNoDeeper(root.nodes, iter.yielded[j].index + 1,
                                   Len(root.nodes), iter.it.depth, iter.it.end)

\* C26: next() on an iterator with cursor < end returns the node at the
\* cursor and then sets the cursor to the first index after it and before end
\* whose node has depth <= the depth of the node returned, which is the
\* depth the iterator was created with plus one, or to end when there is no
\* such index.
C26_CursorByNodeDepth ==
    (pc = "building" /\ iter.node # NullNode) =>
        \A j \in 1..Len(iter.yielded) :
            /\ ReturnedAtCursor(j)
            /\ root.nodes[iter.yielded[j].index + 1].depth = iter.it.depth + 1
            /\ CursorAfter(j)
                   = FirstNoDeeper(root.nodes, iter.yielded[j].index + 1,
                                   iter.it.end, iter.it.depth + 1, iter.it.end)

\* next() has moved the cursor of the iterator of SEQUENCE { SEQUENCE
\* { NULL }, INTEGER } from the inner SEQUENCE over its child to the INTEGER
C26_Witness ==
    /\ pc = "building"
    /\ input = <<48, 7, 48, 2, 5, 0, 2, 1, 1>>
    /\ iter.it.depth = 1
    /\ Len(iter.yielded) = 1
    /\ iter.yielded[1].index = 1
    /\ iter.it.current = 3
    /\ iter.it.end = 4

\* next() on the iterator of a child: the cursor of the inner SEQUENCE's
\* iterator reaches its end
C26_WitnessChild ==
    /\ pc = "building"
    /\ input = <<48, 7, 48, 2, 5, 0, 2, 1, 1>>
    /\ iter.it.depth = 2
    /\ Len(iter.yielded) = 1
    /\ iter.it.current = 3
    /\ iter.it.end = 3

(***************************************************************************)
(* The order of the flat vector.                                           *)
(***************************************************************************)
\* the nodes are in pre-order below one root of depth 1
PreOrder(nodes) ==
    /\ Len(nodes) >= 1
    /\ nodes[1].depth = 1
    /\ \A i \in 2..Len(nodes) :
          /\ nodes[i].depth >= 2
          /\ nodes[i].depth <= nodes[i - 1].depth + 1
          /\ nodes[i].depth > nodes[i - 1].depth => nodes[i - 1].isConstructed

Roots(nodes) == { i \in 1..Len(nodes) : nodes[i].depth = 1 }

\* C27: in every flat vector returned by a successful parse the nodes are in
\* pre-order: the first node has depth 1, every later node has a depth
\* between 2 and the depth of the preceding node + 1, and the node before a
\* depth increase is constructed; exactly one node has depth 1, and the
\* public parse fails only with the error of the parser, never on its check
\* for several roots.
C27_PreOrder ==
    /\ (pc = "parsed" /\ result.err = NoError) =>
          /\ PreOrder(result.nodes)
          /\ Cardinality(Roots(result.nodes)) = 1
          /\ RootView(result.nodes).err = NoError
    /\ pc = "viewed" =>
          /\ root.err = ParseResultParse(input, Distinguished).err
          /\ root.err = NoError =>
                /\ PreOrder(root.nodes)
                /\ Cardinality(Roots(root.nodes)) = 1

\* a vector whose depths go up to 3 and back to 2
C27_Witness ==
    /\ pc = "parsed"
    /\ rules = Distinguished
    /\ result.err = NoError
    /\ [i \in 1..Len(result.nodes) |-> result.nodes[i].depth] = <<1, 2, 3, 2, 3>>

\* the public parse has passed its check for several roots
C27_WitnessPublic ==
    /\ pc = "viewed"
    /\ root.err = NoError
    /\ Len(root.nodes) = 5
    /\ root.node.coll.end = 5

\* an indefinite-length node whose end-of-contents node was taken off the
\* vector
C27_WitnessIndefinite ==
    /\ pc = "parsed"
    /\ rules = Basic
    /\ input = <<48, 128, 48, 2, 5, 0, 5, 0, 0, 0>>
    /\ result.err = NoError
    /\ [i \in 1..Len(result.nodes) |-> result.nodes[i].depth] = <<1, 2, 3, 2>>

(***************************************************************************)
(* The number of calls of _parseNode.                                      *)
(***************************************************************************)
\* the parser state after the top-level call: nodeCount is the number of
\* calls of _parseNode that were made
TopLevelCall == parseNode(Ctx(input, 0, <<>>), rules, 1)

\* C28: parse ends on every input under either rule set, with a tree or
\* with an error, after a number of calls of _parseNode that the input length
\* bounds: every call that returns has consumed at least two bytes of the
\* remaining input (its node's encoding, or the end-of-contents octets), so
\* a parse that succeeds has made at most Len(input) / 2 calls, and one that
\* fails at most one more, the call that threw.
C28_BoundedByInput ==
    /\ pc = "parsed" =>
          /\ result = ParseResultOf(TopLevelCall)
          /\ 2 * (TopLevelCall.nodeCount - 1) <= Len(input)
          /\ TopLevelCall.err = NoError =>
                /\ Len(input) - Len(TopLevelCall.data) >= 2
                /\ 2 * TopLevelCall.nodeCount
                       <= Len(input) - Len(TopLevelCall.data)
                /\ Len(TopLevelCall.nodes) <= TopLevelCall.nodeCount
                /\ \A i \in 1..Len(TopLevelCall.nodes) :
                      Len(TopLevelCall.nodes[i].encodedBytes) >= 2
    /\ pc = "looped" =>
          /\ 2 * (result.count - base - 1) <= Len(input)
          /\ result.err = NoError =>
                /\ 2 * (result.count - base) <= Len(input)
                /\ \A i \in 1..Len(result.nodes) :
                      Len(result.nodes[i].encodedBytes) >= 2

\* four nested nodes of two bytes each: as many calls as the input allows
C28_Witness ==
    /\ pc = "parsed"
    /\ input = <<48, 6, 48, 4, 48, 2, 5, 0>>
    /\ result.err = NoError
    /\ TopLevelCall.nodeCount = 4

\* the calls that parsed end-of-contents octets are counted
C28_WitnessIndefinite ==
    /\ pc = "parsed"
    /\ rules = Basic
    /\ input = <<48, 128, 48, 128, 0, 0, 0, 0>>
    /\ result.err = NoError
    /\ Len(result.nodes) = 2
    /\ TopLevelCall.nodeCount = 4

\* a parse that fails in its third call, on one byte
C28_WitnessFailed ==
    /\ pc = "parsed"
    /\ input = <<48, 3, 48, 1, 5>>
    /\ result.err = TruncatedASN1Field
    /\ TopLevelCall.nodeCount = 3

(***************************************************************************)
(* The buffer of a Serializer across a call.                               *)
(***************************************************************************)
\* the content that the writer of the call emitted
EmittedBy(call) ==
    CASE call.op = "appendPrimitiveNode" -> call.payload
      [] call.op \in {"appendConstructedNode", "writeSequence", "writeSet"} ->
             TLV(<<4>>, call.payload)
      [] call.op = "writeNode" -> ContentOf(call.parsed.node.encodedBytes)
      [] call.op = "serialize" -> ContentOf(serialize(<<>>, call.value))

\* C29: every append operation of the Serializer (appendPrimitiveNode,
\* appendConstructedNode, writeSequence, writeSet, writeNode, serialize) is
\* atomic on the buffer: when it completes, the bytes emitted before it are
\* an unchanged prefix of the new buffer and exactly one complete TLV has
\* been appended, whose content is exactly what the writer emitted; when the
\* writer throws, the buffer is exactly as it was before the call.
C29_AtomicAppend ==
    [][ (pc = "serialized" /\ pc' \in {"appended", "failed"}) =>
            /\ args'.type = "Call"
            /\ Len(out) > 0
            /\ IF args'.throws
               THEN pc' = "failed" /\ thrown' = WriterThrew /\ out' = out
               ELSE /\ pc' = "appended" /\ thrown' = NoError
                    /\ Len(out') > Len(out)
                    /\ Take(out', Len(out)) = out
                    /\ LET appended == Drop(out', Len(out))
                       IN  /\ TLVCount(appended) = 1
                           /\ ContentPos(appended) + LenValue(appended) - 1
                                  = Len(appended)
                           /\ ContentOf(appended) = EmittedBy(args')
                           /\ IsConstructedId(appended)
                                  = (args'.op \in {"appendConstructedNode",
                                                   "writeSequence", "writeSet"}
                                     \/ (args'.op = "writeNode"
                                         /\ args'.parsed.node.constructed)) ]_vars

\* writeSequence whose writer threw after appending to the nested
\* Serializer: the buffer holds the node emitted before
C29_Witness ==
    /\ pc = "failed"
    /\ args.type = "Call"
    /\ args.op = "writeSequence" /\ args.payload = <<97>> /\ args.throws
    /\ thrown = WriterThrew
    /\ out = <<4, 1, 97>>

\* appendConstructedNode that completed after a node of 256 bytes of content
C29_WitnessAppended ==
    /\ pc = "appended"
    /\ args.type = "Call"
    /\ args.op = "appendConstructedNode" /\ args.payload = <<97>>
    /\ Len(out) = 4 + 256 + 5
    /\ Drop(out, 4 + 256) = <<160, 3, 4, 1, 97>>

\* writeNode of a parsed SEQUENCE { SET { NULL } } after a first node
C29_WitnessWriteNode ==
    /\ pc = "appended"
    /\ args.type = "Call"
    /\ args.op = "writeNode"
    /\ out = <<4, 0, 48, 4, 49, 2, 5, 0>>

\* appendPrimitiveNode whose writer threw after pushing a byte
C29_WitnessPrimitive ==
    /\ pc = "failed"
    /\ args.type = "Call"
    /\ args.op = "appendPrimitiveNode" /\ args.payload = <<97>> /\ args.throws
    /\ out = <<4, 0>>

(***************************************************************************)
(* The identifier of a string that was decoded and serialized again.       *)
(***************************************************************************)
\* a string decoded by the static fromDERNode of the class has been
\* serialized
StringReserialized(class) ==
    /\ pc = "reserialized"
    /\ decoder.class = class /\ decoder.form = "static"

\* C30: a value obtained from ASN1IA5String.fromDERNode (ASN1PrintableString
\* .fromDERNode) on a node with the IA5String (PrintableString) identifier
\* serializes with that same identifier: decoding and serializing again
\* reproduces the identifier octet of the node.
C30_SameIdentifier ==
    \A class \in {"IA5String", "PrintableString"} :
        StringReserialized(class) =>
            /\ root.node.identifier = defaultIdentifier(class)
            /\ out[1] = root.node.encodedBytes[1]

\* what holds of the code: the value of any of the three decoders is
\* serialized with the UTF8String identifier and the UTF-8 form of the
\* decoded text
C30_UTF8Identifier ==
    \A class \in StringClasses :
        StringReserialized(class) =>
            /\ root.node.identifier = defaultIdentifier(class)
            /\ decoded.value.type = "ASN1UTF8String"
            /\ out = TLV(<<12>>, TextEncode(TextDecode(root.node.value)))

\* the IA5String "a" comes back as the UTF8String "a"
C30_TagLost ==
    /\ StringReserialized("IA5String")
    /\ input = <<22, 1, 1>>
    /\ decoded = Returned(ASN1UTF8String(<<1>>))
    /\ out = <<12, 1, 1>>

\* a UTF8String keeps its identifier
C30_UTF8Kept ==
    /\ StringReserialized("UTF8String")
    /\ input = <<12, 1, 1>>
    /\ out = input

====
